---- MODULE Spec2Model ----
(***************************************************************************)
(* A model of bot.py, the GATE target tracker: the persisted document      *)
(* (data.json) and the command handlers that load it, change it and save   *)
(* it.  Strings that the code splits, strips, iterates or orders are       *)
(* sequences of one-character strings; identifiers that the code only      *)
(* compares (user ids, display names, reply kinds) are TLA+ strings.       *)
(***************************************************************************)
EXTENDS Integers, Sequences, FiniteSets, TLC

\* file: data.json; now: the clock; reply: the kind of the last message sent or
\* the exception that left the handler; jobs: context.chat_data of every chat;
\* pending: the document a handler suspended at an await has still to save
VARIABLES file, now, reply, jobs, pending

vars == <<file, now, reply, jobs, pending>>

(***************************************************************************)
(* Bounds of the model.                                                    *)
(***************************************************************************)
MaxMilestones == 3
MaxTotalTargets == 2
MaxDay == 2

(***************************************************************************)
(* Python values and the str / list / dict operations the handlers use.    *)
(***************************************************************************)
Q == "\""
None == <<>>
EmptyDict == <<>>
Whitespace == {" "}

HasKey(d, k) == k \in DOMAIN d
Put(d, k, v) == [x \in (DOMAIN d) \cup {k} |-> IF x = k THEN v ELSE d[x]]
Del(d, k) == [x \in (DOMAIN d) \ {k} |-> d[x]]

Contains(l, x) == \E i \in DOMAIN l : l[i] = x
FirstIndex(l, x) == CHOOSE i \in DOMAIN l : l[i] = x /\ \A j \in 1..(i - 1) : l[j] # x
\* list.remove(x): drops the first occurrence
ListRemove(l, x) == LET i == FirstIndex(l, x) IN SubSeq(l, 1, i - 1) \o SubSeq(l, i + 1, Len(l))
\* list.pop(i) with a 0-based index i
\* a pop that takes the element behind the one asked for
ListPop_next(l, i) == SubSeq(l, 1, i + 1) \o SubSeq(l, i + 3, Len(l))
ListPop(l, i) == SubSeq(l, 1, i) \o SubSeq(l, i + 2, Len(l))
\* what list.pop(i) returns
ListPopped(l, i) == l[i + 1]

RECURSIVE LStrip(_, _)
LStrip(s, cs) == IF s # <<>> /\ Head(s) \in cs THEN LStrip(Tail(s), cs) ELSE s
RECURSIVE RStrip(_, _)
RStrip(s, cs) == IF s # <<>> /\ s[Len(s)] \in cs THEN RStrip(SubSeq(s, 1, Len(s) - 1), cs) ELSE s
\* str.strip(chars): every leading and trailing character of the set goes
Strip(s, cs) == RStrip(LStrip(s, cs), cs)

RECURSIVE Split(_, _)
Split(s, sep) ==
    IF ~Contains(s, sep) THEN <<s>>
    ELSE LET i == FirstIndex(s, sep)
         IN <<SubSeq(s, 1, i - 1)>> \o Split(SubSeq(s, i + 1, Len(s)), sep)

RECURSIVE Join(_, _)
Join(parts, sep) ==
    IF parts = <<>> THEN <<>>
    ELSE IF Len(parts) = 1 THEN parts[1]
    ELSE parts[1] \o sep \o Join(Tail(parts), sep)

\* [topic.strip() for topic in topics_str.split(',')]
ParseTopics(topics_str) ==
    LET parts == Split(topics_str, ",")
    IN [i \in DOMAIN parts |-> Strip(parts[i], Whitespace)]

\* str.lower() on the command words the model feeds
Lower(w) == CASE w = "ADD" -> "add" [] w = "Date" -> "date" [] OTHER -> w
\* str.lower() on a word given by its characters
LowerChar(c) == CASE c = "T" -> "t" [] c = "X" -> "x" [] OTHER -> c
lower(s) == [i \in DOMAIN s |-> LowerChar(s[i])]
TodayWord == <<"t", "o", "d", "a", "y">>

(***************************************************************************)
(* Dates and time.  strptime/strftime with "%Y-%m-%d", string order, and   *)
(* the clock: day number now.day at time of day now.tod (0 is midnight).   *)
(***************************************************************************)
DigitChars == <<"0", "1", "2", "3", "4", "5", "6", "7", "8", "9">>
IsDigit(c) == Contains(DigitChars, c)
DigitVal(c) == FirstIndex(DigitChars, c) - 1
AllDigits(s) == \A i \in DOMAIN s : IsDigit(s[i])
RECURSIVE IntVal(_)
IntVal(s) == IF s = <<>> THEN 0 ELSE 10 * IntVal(SubSeq(s, 1, Len(s) - 1)) + DigitVal(s[Len(s)])

\* int(s) for a word: an optional sign and digits; ok is FALSE where it raises ValueError
PyInt(s) ==
    LET signed == s # <<>> /\ Head(s) \in {"-", "+"}
        digits == IF signed THEN Tail(s) ELSE s
    IN IF digits # <<>> /\ AllDigits(digits)
       THEN [ok |-> TRUE, val |-> IF signed /\ Head(s) = "-" THEN 0 - IntVal(digits) ELSE IntVal(digits)]
       ELSE [ok |-> FALSE, val |-> 0]

\* code-point order of the characters the model uses
CharOrder == <<" ", Q, "+", ",", "-", "0", "1", "2", "3", "4", "5", "6", "7", "8", "9",
               "a", "b", "c", "d", "e", "m", "n", "x", "y">>
Ord(c) == FirstIndex(CharOrder, c)
RECURSIVE StrLess(_, _)
StrLess(s, t) ==
    IF t = <<>> THEN FALSE
    ELSE IF s = <<>> THEN TRUE
    ELSE IF Head(s) = Head(t) THEN StrLess(Tail(s), Tail(t))
    ELSE Ord(Head(s)) < Ord(Head(t))

DaysInMonth(y, m) ==
    IF m = 2 THEN (IF (y % 4 = 0 /\ y % 100 # 0) \/ y % 400 = 0 THEN 29 ELSE 28)
    ELSE IF m \in {4, 6, 9, 11} THEN 30 ELSE 31

\* the fields "%Y-%m-%d" accepts: \d\d\d\d, 1[0-2]|0[1-9]|[1-9], 3[01]|[12]\d|0[1-9]|[1-9]| [1-9]
YearField(s) == Len(s) = 4 /\ AllDigits(s)
MonthField(s) == Len(s) \in {1, 2} /\ AllDigits(s) /\ IntVal(s) \in 1..12
DayField(s) ==
    \/ Len(s) \in {1, 2} /\ AllDigits(s) /\ IntVal(s) \in 1..31
    \/ Len(s) = 2 /\ s[1] = " " /\ IsDigit(s[2]) /\ s[2] # "0"

\* datetime.strptime(s, "%Y-%m-%d"): ok is FALSE where it raises ValueError
strptime(s) ==
    LET p == Split(s, "-")
        fields == Len(p) = 3 /\ YearField(p[1]) /\ MonthField(p[2]) /\ DayField(p[3])
        y == IntVal(p[1])
        m == IntVal(p[2])
        d == IntVal(LStrip(p[3], {" "}))
    IN IF fields /\ y >= 1 /\ d <= DaysInMonth(y, m)
       THEN [ok |-> TRUE, y |-> y, m |-> m, d |-> d]
       ELSE [ok |-> FALSE, y |-> 0, m |-> 0, d |-> 0]

Pad2(n) == <<DigitChars[(n \div 10) + 1], DigitChars[(n % 10) + 1]>>
Pad4(n) == Pad2(n \div 100) \o Pad2(n % 100)
\* strftime("%Y-%m-%d")
strftime(t) == Pad4(t.y) \o <<"-">> \o Pad2(t.m) \o <<"-">> \o Pad2(t.d)

\* the calendar day of day number k
DateOfDay(k) == [y |-> 2025, m |-> 8, d |-> 8 + k]
\* a number that orders calendar days
DayNum(t) == (t.y * 12 + t.m) * 31 + t.d
Today == DateOfDay(now.day)
TodayStr == strftime(Today)
\* strftime("%Y-%m-%d %H:%M:%S") of the clock, as the date string and the time of day
Timestamp == <<TodayStr, now.tod>>
\* a comparison that lets the current day count as later
After_inclusive(t, clock) == DayNum(t) >= DayNum(DateOfDay(clock.day))
\* deadline_date > today: strptime gives the midnight of the day, today is the clock
After(t, clock) ==
    \/ DayNum(t) > DayNum(DateOfDay(clock.day))
    \/ DayNum(t) = DayNum(DateOfDay(clock.day)) /\ 0 > clock.tod

(***************************************************************************)
(* Data handling: load_data and save_data.                                 *)
(***************************************************************************)
DefaultDocument ==
    [milestones |-> <<>>, daily_targets |-> EmptyDict, reminders |-> EmptyDict,
     subjects |-> EmptyDict, user_progress |-> EmptyDict]

load_data(f) == IF f.kind = "json" THEN f.doc ELSE DefaultDocument

save_data(data) == [kind |-> "json", doc |-> data]

MissingFile == [kind |-> "missing", doc |-> DefaultDocument]
\* a file whose text stops short of a JSON value: json.load raises JSONDecodeError
PartialFile == [kind |-> "partial", doc |-> DefaultDocument]
\* a file whose bytes are no text in the encoding open() reads with: f.read()
\* inside json.load raises UnicodeDecodeError, which line 31 does not catch
BytesFile == [kind |-> "bytes", doc |-> DefaultDocument]
\* the exception load_data lets through, "none" when it returns
load_error(f) == IF f.kind = "bytes" THEN "UnicodeDecodeError" ELSE "none"

\* what a handler leaves behind: the file and the kind of its reply
NotSaved(f, r) == [file |-> f, reply |-> r]
Saved(data, r) == [file |-> save_data(data), reply |-> r]
\* a handler r that runs as far as its load_data(): the exception of the load
\* leaves the handler
with_load(f, r) == IF load_error(f) # "none" THEN NotSaved(f, load_error(f)) ELSE r

(***************************************************************************)
(* is_admin: a private chat is its own admin, a group asks the admin list. *)
(***************************************************************************)
Users == {"u1", "u2"}
FirstName(u) == IF u = "u1" THEN "Ann" ELSE "Bob"

is_admin(chat, user_id) == chat.type = "private" \/ user_id \in chat.admins

(***************************************************************************)
(* Syllabus: subjects, topics and the users' completed topics.             *)
(* A user's progress dict holds the key "name" (a string) beside one key   *)
(* per subject (a dict); both kinds of value are records of one shape.     *)
(***************************************************************************)
NameKey == <<"n", "a", "m", "e">>
PStr(s) == [kind |-> "str", str |-> s, completed_topics |-> <<>>, last_updated |-> None]
PProg(ct, lu) == [kind |-> "dict", str |-> "", completed_topics |-> ct, last_updated |-> lu]

\* some user's entry under subject_name is not a dict: indexing it raises TypeError
StrEntry(data, subject_name) ==
    \E u \in DOMAIN data.user_progress :
        /\ HasKey(data.user_progress[u], subject_name)
        /\ data.user_progress[u][subject_name].kind = "str"

\* a plausible slip: the topics given are merged into those of an existing subject
add_subject_merge(data, subject_name, topics) ==
    LET d1 == IF ~HasKey(data, "subjects") THEN Put(data, "subjects", EmptyDict) ELSE data
        merged == IF HasKey(d1.subjects, subject_name)
                  THEN d1.subjects[subject_name].topics \o topics
                  ELSE topics
    IN [d1 EXCEPT !.subjects = Put(@, subject_name, [topics |-> merged, total_topics |-> Len(merged)])]

add_subject_store(data, subject_name, topics) ==
    LET d1 == IF ~HasKey(data, "subjects") THEN Put(data, "subjects", EmptyDict) ELSE data
    IN [d1 EXCEPT !.subjects = Put(@, subject_name, [topics |-> topics, total_topics |-> Len(topics)])]

add_subject(f, admin, args) ==
    IF ~admin THEN NotSaved(f, "denied")
    ELSE IF Len(args) < 2 THEN NotSaved(f, "usage")
    ELSE LET subject_name == Strip(args[1], {Q})
             topics == ParseTopics(Join(Tail(args), <<" ">>))
         IN with_load(f, Saved(add_subject_store(load_data(f), subject_name, topics),
                               "subject_added"))

\* lines 434-445 without the loop over user_progress
delete_subject_keep_progress(f, admin, args) ==
    IF ~admin THEN NotSaved(f, "denied")
    ELSE IF Len(args) < 1 THEN NotSaved(f, "usage")
    ELSE LET subject_name == Strip(args[1], {Q})
             data == load_data(f)
         IN IF load_error(f) # "none" THEN NotSaved(f, load_error(f))
            ELSE IF ~HasKey(data, "subjects") \/ ~HasKey(data.subjects, subject_name)
            THEN NotSaved(f, "subject_not_found")
            ELSE LET d1 == [data EXCEPT !.subjects = Del(@, subject_name)]
                     d2 == d1
                 IN Saved(d2, "subject_deleted")

delete_subject(f, admin, args) ==
    IF ~admin THEN NotSaved(f, "denied")
    ELSE IF Len(args) < 1 THEN NotSaved(f, "usage")
    ELSE LET subject_name == Strip(args[1], {Q})
             data == load_data(f)
         IN IF load_error(f) # "none" THEN NotSaved(f, load_error(f))
            ELSE IF ~HasKey(data, "subjects") \/ ~HasKey(data.subjects, subject_name)
            THEN NotSaved(f, "subject_not_found")
            ELSE LET d1 == [data EXCEPT !.subjects = Del(@, subject_name)]
                     d2 == IF HasKey(d1, "user_progress")
                           THEN [d1 EXCEPT !.user_progress =
                                    [u \in DOMAIN @ |-> Del(@[u], subject_name)]]
                           ELSE d1
                 IN Saved(d2, "subject_deleted")

\* the removal shared by delete_topic and edit_topics remove
remove_topic(data, subject_name, topic_name) ==
    LET topics == ListRemove(data.subjects[subject_name].topics, topic_name)
        d1 == [data EXCEPT !.subjects[subject_name].topics = topics,
                           !.subjects[subject_name].total_topics = Len(topics)]
    IN IF HasKey(d1, "user_progress")
       THEN [d1 EXCEPT !.user_progress =
                [u \in DOMAIN @ |->
                    IF /\ HasKey(@[u], subject_name)
                       /\ Contains(@[u][subject_name].completed_topics, topic_name)
                    THEN [@[u] EXCEPT ![subject_name].completed_topics =
                             ListRemove(@, topic_name)]
                    ELSE @[u]]]
       ELSE d1

\* lines 371-379: the users from whose completed topics the topic was taken
removed_from_users(data, subject_name, topic_name) ==
    IF ~HasKey(data, "user_progress") THEN {}
    ELSE {u \in DOMAIN data.user_progress :
             /\ HasKey(data.user_progress[u], subject_name)
             /\ Contains(data.user_progress[u][subject_name].completed_topics, topic_name)}
\* line 378: data["user_progress"][user_id].get("name", "Unknown User"); line
\* 387 joins the names, which raises TypeError when one of them is not a str
reported_name(data, u) ==
    IF HasKey(data.user_progress[u], NameKey) THEN data.user_progress[u][NameKey]
    ELSE PStr("Unknown User")

delete_topic(f, admin, args) ==
    IF ~admin THEN NotSaved(f, "denied")
    ELSE IF Len(args) < 2 THEN NotSaved(f, "usage")
    ELSE LET subject_name == Strip(args[1], {Q})
             topic_name == Strip(Join(Tail(args), <<" ">>), {Q})
             data == load_data(f)
         IN IF load_error(f) # "none" THEN NotSaved(f, load_error(f))
            ELSE IF ~HasKey(data, "subjects") \/ ~HasKey(data.subjects, subject_name)
            THEN NotSaved(f, "subject_not_found")
            ELSE IF ~Contains(data.subjects[subject_name].topics, topic_name)
            THEN NotSaved(f, "topic_not_found")
            ELSE IF HasKey(data, "user_progress") /\ StrEntry(data, subject_name)
            THEN NotSaved(f, "TypeError")
            ELSE [file |-> save_data(remove_topic(data, subject_name, topic_name)),
                  reply |-> IF \E u \in removed_from_users(data, subject_name, topic_name) :
                                  reported_name(data, u).kind # "str"
                            THEN "TypeError"
                            ELSE "topic_deleted",
                  removed_from_users |-> removed_from_users(data, subject_name, topic_name)]

\* a plausible slip: the topics grow and total_topics is not recomputed
edit_topics_add_stale(data, subject_name, unique_new_topics) ==
    [data EXCEPT !.subjects[subject_name].topics = @ \o unique_new_topics]

\* a plausible slip: the new topics are put in front of the existing ones
edit_topics_add_first(data, subject_name, unique_new_topics) ==
    LET current_topics == unique_new_topics \o data.subjects[subject_name].topics
    IN [data EXCEPT !.subjects[subject_name].topics = current_topics,
                    !.subjects[subject_name].total_topics = Len(current_topics)]

edit_topics_add(data, subject_name, unique_new_topics) ==
    LET current_topics == data.subjects[subject_name].topics \o unique_new_topics
    IN [data EXCEPT !.subjects[subject_name].topics = current_topics,
                    !.subjects[subject_name].total_topics = Len(current_topics)]

edit_topics_replace(data, subject_name, new_topics) ==
    LET current_topics == data.subjects[subject_name].topics
        removed_topics == SelectSeq(current_topics, LAMBDA t : ~Contains(new_topics, t))
        d1 == [data EXCEPT !.subjects[subject_name].topics = new_topics,
                           !.subjects[subject_name].total_topics = Len(new_topics)]
    IN IF removed_topics # <<>> /\ HasKey(d1, "user_progress")
       THEN [d1 EXCEPT !.user_progress =
                [u \in DOMAIN @ |->
                    IF HasKey(@[u], subject_name)
                    THEN [@[u] EXCEPT ![subject_name].completed_topics =
                             SelectSeq(@, LAMBDA t : Contains(new_topics, t))]
                    ELSE @[u]]]
       ELSE d1

edit_topics(f, admin, args) ==
    IF ~admin THEN NotSaved(f, "denied")
    ELSE IF Len(args) < 3 THEN NotSaved(f, "usage")
    ELSE LET subject_name == Strip(args[1], {Q})
             action == Lower(args[2])
             topics_input == Strip(Join(SubSeq(args, 3, Len(args)), <<" ">>), {Q})
             data == load_data(f)
         IN IF load_error(f) # "none" THEN NotSaved(f, load_error(f))
            ELSE IF ~HasKey(data, "subjects") \/ ~HasKey(data.subjects, subject_name)
            THEN NotSaved(f, "subject_not_found")
            ELSE LET current_topics == data.subjects[subject_name].topics
                     new_topics == ParseTopics(topics_input)
                     unique_new_topics ==
                         SelectSeq(new_topics, LAMBDA t : ~Contains(current_topics, t))
                     removed_topics ==
                         SelectSeq(current_topics, LAMBDA t : ~Contains(new_topics, t))
                 IN CASE action = "add" ->
                            IF unique_new_topics = <<>>
                            THEN NotSaved(f, "all_topics_exist")
                            ELSE Saved(edit_topics_add(data, subject_name, unique_new_topics),
                                       "topics_added")
                      [] action = "remove" ->
                            IF ~Contains(current_topics, topics_input)
                            THEN NotSaved(f, "topic_not_found")
                            ELSE IF HasKey(data, "user_progress") /\ StrEntry(data, subject_name)
                            THEN NotSaved(f, "TypeError")
                            ELSE Saved(remove_topic(data, subject_name, topics_input),
                                       "topic_removed")
                      [] action = "replace" ->
                            IF removed_topics # <<>> /\ HasKey(data, "user_progress")
                               /\ StrEntry(data, subject_name)
                            THEN NotSaved(f, "TypeError")
                            ELSE Saved(edit_topics_replace(data, subject_name, new_topics),
                                       "topics_replaced")
                      [] OTHER -> NotSaved(f, "invalid_action")

\* lines 1179-1186: the containers complete_topic creates before it looks
complete_topic_init(data, user_id, user_name, subject_name) ==
    LET d1 == IF ~HasKey(data, "user_progress") THEN Put(data, "user_progress", EmptyDict) ELSE data
        d2 == IF ~HasKey(d1.user_progress, user_id)
              THEN [d1 EXCEPT !.user_progress = Put(@, user_id, Put(EmptyDict, NameKey, PStr(user_name)))]
              ELSE d1
    IN IF ~HasKey(d2.user_progress[user_id], subject_name)
       THEN [d2 EXCEPT !.user_progress[user_id] = Put(@, subject_name, PProg(<<>>, None))]
       ELSE d2

complete_topic_append(data, user_id, subject_name, topic_name, today_str) ==
    [data EXCEPT !.user_progress[user_id][subject_name] =
        PProg(@.completed_topics \o <<topic_name>>, today_str)]

complete_topic(f, user_id, user_name, args, today_str) ==
    IF Len(args) < 2 THEN NotSaved(f, "usage")
    ELSE LET subject_name == Strip(args[1], {Q})
             topic_name == Strip(Join(Tail(args), <<" ">>), {Q})
             data == load_data(f)
         IN IF load_error(f) # "none" THEN NotSaved(f, load_error(f))
            ELSE IF ~HasKey(data, "subjects") \/ ~HasKey(data.subjects, subject_name)
            THEN NotSaved(f, "subject_not_found")
            ELSE IF ~Contains(data.subjects[subject_name].topics, topic_name)
            THEN NotSaved(f, "topic_not_found")
            ELSE LET d1 == complete_topic_init(data, user_id, user_name, subject_name)
                     entry == d1.user_progress[user_id][subject_name]
                 IN IF entry.kind = "str" THEN NotSaved(f, "TypeError")
                    ELSE IF ~Contains(entry.completed_topics, topic_name)
                    THEN LET d2 == complete_topic_append(d1, user_id, subject_name,
                                                         topic_name, today_str)
                         IN IF d2.subjects[subject_name].total_topics = 0
                            THEN Saved(d2, "ZeroDivisionError")
                            ELSE Saved(d2, "topic_completed")
                    ELSE NotSaved(f, "topic_already_completed")

view_subjects(f) ==
    LET data == load_data(f)
    IN IF load_error(f) # "none" THEN NotSaved(f, load_error(f))
       ELSE IF ~HasKey(data, "subjects") \/ data.subjects = EmptyDict
       THEN NotSaved(f, "no_subjects")
       ELSE NotSaved(f, "subjects_shown")

view_topics(f, user_id, args) ==
    IF Len(args) < 1 THEN NotSaved(f, "usage")
    ELSE LET subject_name == Strip(Join(args, <<" ">>), {Q})
             data == load_data(f)
         IN IF load_error(f) # "none" THEN NotSaved(f, load_error(f))
            ELSE IF ~HasKey(data, "subjects") \/ ~HasKey(data.subjects, subject_name)
            THEN NotSaved(f, "subject_not_found")
            ELSE LET topics == data.subjects[subject_name].topics
                 IN IF /\ HasKey(data, "user_progress")
                       /\ HasKey(data.user_progress, user_id)
                       /\ HasKey(data.user_progress[user_id], subject_name)
                    THEN IF data.user_progress[user_id][subject_name].kind = "str"
                         THEN NotSaved(f, "TypeError")
                         ELSE IF Len(topics) = 0
                         THEN NotSaved(f, "ZeroDivisionError")
                         ELSE NotSaved(f, "topics_shown")
                    ELSE NotSaved(f, "topics_shown")

(***************************************************************************)
(* Milestones: the ledger, kept in the order list.sort(key=date) gives.    *)
(***************************************************************************)
\* where a stable sort puts x in a list already sorted by date: after every
\* element whose date is not greater
InsertByDate(sorted, x) ==
    LET k == Cardinality({i \in DOMAIN sorted : ~StrLess(x.date, sorted[i].date)})
    IN SubSeq(sorted, 1, k) \o <<x>> \o SubSeq(sorted, k + 1, Len(sorted))

\* data["milestones"].sort(key=lambda x: x["date"]): stable, by string order
RECURSIVE SortByDate(_)
SortByDate(l) ==
    IF l = <<>> THEN <<>>
    ELSE InsertByDate(SortByDate(SubSeq(l, 1, Len(l) - 1)), l[Len(l)])

set_milestone_store(data, date_str, description) ==
    [data EXCEPT !.milestones =
        SortByDate(@ \o <<[date |-> date_str, description |-> description]>>)]

set_milestone(f, admin, args) ==
    IF ~admin THEN NotSaved(f, "denied")
    ELSE IF Len(args) < 1 THEN NotSaved(f, "usage")
    ELSE LET date_str == args[1]
             description == Strip(Join(Tail(args), <<" ">>), {Q})
         IN IF ~strptime(date_str).ok THEN NotSaved(f, "usage")
            ELSE with_load(f, Saved(set_milestone_store(load_data(f), date_str, description),
                                    "milestone_set"))

\* a plausible slip: the date is edited and the list is not sorted again
edit_milestone_date_unsorted(data, m_num, new_value) ==
    [data EXCEPT !.milestones[m_num + 1].date = new_value]

edit_milestone_date(data, m_num, new_value) ==
    [data EXCEPT !.milestones = SortByDate([@ EXCEPT ![m_num + 1].date = new_value])]

edit_milestone_description(data, m_num, new_value) ==
    [data EXCEPT !.milestones[m_num + 1].description = Strip(new_value, {Q})]

\* the date written and saved before strptime has validated it
edit_milestone_unvalidated(f, admin, args) ==
    IF ~admin THEN NotSaved(f, "denied")
    ELSE IF Len(args) < 2 THEN NotSaved(f, "usage")
    ELSE LET m_num_str == args[1]
             field == Lower(args[2])
             new_value == Join(SubSeq(args, 3, Len(args)), <<" ">>)
             data == load_data(f)
         IN IF ~PyInt(m_num_str).ok THEN NotSaved(f, "usage")
            ELSE IF load_error(f) # "none" THEN NotSaved(f, load_error(f))
            ELSE LET m_num == PyInt(m_num_str).val - 1
                 IN IF ~(0 <= m_num /\ m_num < Len(data.milestones))
                    THEN NotSaved(f, "invalid_milestone_number")
                    ELSE CASE field = "date" ->
                                IF ~strptime(new_value).ok
                                THEN Saved(edit_milestone_date(data, m_num, new_value), "usage")
                                ELSE Saved(edit_milestone_date(data, m_num, new_value),
                                           "milestone_updated")
                           [] field = "description" ->
                                Saved(edit_milestone_description(data, m_num, new_value),
                                      "milestone_updated")
                           [] OTHER -> NotSaved(f, "usage")

edit_milestone(f, admin, args) ==
    IF ~admin THEN NotSaved(f, "denied")
    ELSE IF Len(args) < 2 THEN NotSaved(f, "usage")
    ELSE LET m_num_str == args[1]
             field == Lower(args[2])
             new_value == Join(SubSeq(args, 3, Len(args)), <<" ">>)
             data == load_data(f)
         IN IF ~PyInt(m_num_str).ok THEN NotSaved(f, "usage")
            ELSE IF load_error(f) # "none" THEN NotSaved(f, load_error(f))
            ELSE LET m_num == PyInt(m_num_str).val - 1
                 IN IF ~(0 <= m_num /\ m_num < Len(data.milestones))
                    THEN NotSaved(f, "invalid_milestone_number")
                    ELSE CASE field = "date" ->
                                IF ~strptime(new_value).ok THEN NotSaved(f, "usage")
                                ELSE Saved(edit_milestone_date(data, m_num, new_value),
                                           "milestone_updated")
                           [] field = "description" ->
                                Saved(edit_milestone_description(data, m_num, new_value),
                                      "milestone_updated")
                           [] OTHER -> NotSaved(f, "usage")

view_plan(f) ==
    IF load_error(f) # "none" THEN NotSaved(f, load_error(f))
    ELSE IF load_data(f).milestones = <<>> THEN NotSaved(f, "no_plan")
    ELSE NotSaved(f, "plan_shown")

clear_plan(f, admin) ==
    IF ~admin THEN NotSaved(f, "denied")
    ELSE with_load(f, Saved([load_data(f) EXCEPT !.milestones = <<>>], "plan_cleared"))

\* lines 324-325 left out: a number below 1 reaches list.pop, which counts a
\* negative index from the end of the list
delete_milestone_from_end(f, admin, args) ==
    IF ~admin THEN NotSaved(f, "denied")
    ELSE IF Len(args) < 1 THEN NotSaved(f, "usage")
    ELSE IF ~PyInt(args[1]).ok THEN NotSaved(f, "invalid_number")
    ELSE LET milestone_number == PyInt(args[1]).val
             data == load_data(f)
             index == IF milestone_number - 1 < 0
                      THEN milestone_number - 1 + Len(data.milestones)
                      ELSE milestone_number - 1
         IN IF load_error(f) # "none" THEN NotSaved(f, load_error(f))
            ELSE IF data.milestones = <<>> THEN NotSaved(f, "no_milestones")
            ELSE IF milestone_number > Len(data.milestones)
            THEN NotSaved(f, "milestone_out_of_range")
            ELSE IF index < 0 THEN NotSaved(f, "IndexError")
            ELSE [file |-> save_data([data EXCEPT !.milestones = ListPop(@, index)]),
                  reply |-> "milestone_deleted",
                  deleted_milestone |-> ListPopped(data.milestones, index)]

delete_milestone(f, admin, args) ==
    IF ~admin THEN NotSaved(f, "denied")
    ELSE IF Len(args) < 1 THEN NotSaved(f, "usage")
    ELSE IF ~PyInt(args[1]).ok \/ PyInt(args[1]).val < 1 THEN NotSaved(f, "invalid_number")
    ELSE LET milestone_number == PyInt(args[1]).val
             data == load_data(f)
         IN IF load_error(f) # "none" THEN NotSaved(f, load_error(f))
            ELSE IF data.milestones = <<>> THEN NotSaved(f, "no_milestones")
            ELSE IF milestone_number > Len(data.milestones)
            THEN NotSaved(f, "milestone_out_of_range")
            ELSE [file |-> save_data([data EXCEPT !.milestones = ListPop(@, milestone_number - 1)]),
                  reply |-> "milestone_deleted",
                  deleted_milestone |-> ListPopped(data.milestones, milestone_number - 1)]

\* the scan of status and of the reminder jobs: the first milestone, in list
\* order, whose date is after the clock; None when there is none
next_deadline(milestones, today) ==
    LET later == {i \in DOMAIN milestones : After(strptime(milestones[i].date), today)}
    IN IF later = {} THEN None
       ELSE milestones[CHOOSE i \in later : \A j \in later : i <= j]

status(f, today) ==
    IF load_error(f) # "none" THEN NotSaved(f, load_error(f))
    ELSE IF next_deadline(load_data(f).milestones, today) = None
    THEN NotSaved(f, "status_no_deadline")
    ELSE NotSaved(f, "status_next_deadline")

(***************************************************************************)
(* Daily targets.  data["daily_targets"][date][user_id] is a dict with the *)
(* keys "name", "targets" and, in records of older versions, "target".     *)
(* A value stored under "targets" or "target" is a list or a string; an    *)
(* element of a list is a string or a dict {text, completed, completed_at},*)
(* and a dict whose text is itself an element carries it in wraps.         *)
(***************************************************************************)
PList(l) == [t |-> "list", s |-> <<>>, l |-> l]
PString(s) == [t |-> "str", s |-> s, l |-> <<>>]
\* values of other shapes that json can hold there: a number other than 0, null
PNumber == [t |-> "int", s |-> <<>>, l |-> <<>>]
PNull == [t |-> "null", s |-> <<>>, l |-> <<>>]
\* a value on which the handlers' list code fails: targets[0] of a number
\* (lines 77, 204, 1033, 1099, 966, 1264, 696) and len(None) or
\* enumerate(None) behind the skipped conversion raise TypeError
Unrecognized(v) == v.t \notin {"list", "str"}

StrItem(s) == [t |-> "str", text |-> s, completed |-> FALSE, completed_at |-> None, wraps |-> <<>>]
\* {"text": target, "completed": False, "completed_at": None} for a string target
NewTarget(text) ==
    [t |-> "dict", text |-> text, completed |-> FALSE, completed_at |-> None, wraps |-> <<>>]
\* the same dict literal built around any element of a list
WrapTarget(target) ==
    IF target.t = "str" THEN NewTarget(target.text)
    ELSE [t |-> "dict", text |-> <<>>, completed |-> FALSE, completed_at |-> None,
          wraps |-> <<target>>]

\* what "for target in targets" and targets[i] see: the elements of a list,
\* the characters of a string
Elems(v) == IF v.t = "list" THEN v.l ELSE [i \in DOMAIN v.s |-> StrItem(<<v.s[i]>>)]
\* the test without isinstance: any non-empty list is converted
OldFormat_nonempty(v) == Elems(v) # <<>>
\* the test for the wrong type: isinstance(targets[0], dict)
OldFormat_dict(v) == Elems(v) # <<>> /\ Elems(v)[1].t = "dict"
\* targets and isinstance(targets[0], str)
OldFormat(v) == Elems(v) # <<>> /\ Elems(v)[1].t = "str"
ConvertAll(v) == [i \in DOMAIN Elems(v) |-> WrapTarget(Elems(v)[i])]

\* lines 919-943 (and 131-155): the migration of set_today_target and set_date_target
migrate_on_add(user_data) ==
    IF HasKey(user_data, "targets") THEN user_data
    ELSE IF HasKey(user_data, "target")
    THEN LET old_targets == user_data["target"]
             new_targets ==
                 IF old_targets.t = "str" THEN <<NewTarget(old_targets.s)>>
                 ELSE IF old_targets.t = "list"
                 THEN [i \in DOMAIN old_targets.l |->
                          IF old_targets.l[i].t = "str"
                          THEN NewTarget(old_targets.l[i].text)
                          ELSE old_targets.l[i]]
                 ELSE <<>>
         IN Del(Put(user_data, "targets", PList(new_targets)), "target")
    ELSE Put(user_data, "targets", PList(<<>>))

\* lines 73-84 and 200-211: the conversion of show_user_targets_for_date and
\* complete_goal, which reads "targets" alone
convert_targets(user_targets) ==
    LET targets == IF HasKey(user_targets, "targets") THEN user_targets["targets"]
                   ELSE PList(<<>>)
    IN IF OldFormat(targets)
       THEN [converted |-> TRUE, key |-> "targets",
             user |-> Put(user_targets, "targets", PList(ConvertAll(targets))),
             targets |-> ConvertAll(targets)]
       ELSE [converted |-> FALSE,
             key |-> IF HasKey(user_targets, "targets") THEN "targets" ELSE "",
             user |-> user_targets, targets |-> Elems(targets)]

\* user_targets.get("targets", user_targets.get("target", [])): the key read, the value
StoredKey(user_targets) ==
    IF HasKey(user_targets, "targets") THEN "targets"
    ELSE IF HasKey(user_targets, "target") THEN "target" ELSE ""
StoredTargets(user_targets) ==
    IF StoredKey(user_targets) = "" THEN PList(<<>>) ELSE user_targets[StoredKey(user_targets)]

\* lines 1030-1041, 1096-1107, 966-977, 1261-1271 and 694-704: the conversion
\* that falls back to the old key "target"
convert_with_old_key(user_targets) ==
    LET key == StoredKey(user_targets)
        targets == StoredTargets(user_targets)
    IN IF OldFormat(targets)
       THEN [converted |-> TRUE, key |-> "targets",
             user |-> Del(Put(user_targets, "targets", PList(ConvertAll(targets))), "target"),
             targets |-> ConvertAll(targets)]
       ELSE [converted |-> FALSE, key |-> key, user |-> user_targets,
             targets |-> Elems(targets)]

HasTargets(data, date_str, user_id) ==
    /\ HasKey(data, "daily_targets")
    /\ HasKey(data.daily_targets, date_str)
    /\ HasKey(data.daily_targets[date_str], user_id)

\* the list a handler changed, put back where the handler holds it
StoreTargets(data, date_str, user_id, c, targets) ==
    IF c.key = "" THEN [data EXCEPT !.daily_targets[date_str][user_id] = c.user]
    ELSE [data EXCEPT !.daily_targets[date_str][user_id] = Put(c.user, c.key, PList(targets))]

\* lines 945-946 (and 157-158): target_obj = {"text": target, ...}.  The loop
\* of the migration, "for target in old_targets" (lines 932 and 144), assigns
\* the same name: behind a non-empty list under "target" it holds the last
\* element of that list, not the text of the command.
appended_target(user_data, target) ==
    IF /\ ~HasKey(user_data, "targets") /\ HasKey(user_data, "target")
       /\ user_data["target"].t = "list" /\ user_data["target"].l # <<>>
    THEN WrapTarget(user_data["target"].l[Len(user_data["target"].l)])
    ELSE NewTarget(target)

\* lines 911-948 (and 124-160): the containers, the migration, the append
add_target(f, user_id, user_name, date_str, target) ==
    LET data == load_data(f)
        d1 == IF ~HasKey(data.daily_targets, date_str)
              THEN [data EXCEPT !.daily_targets = Put(@, date_str, EmptyDict)]
              ELSE data
        d2 == IF ~HasKey(d1.daily_targets[date_str], user_id)
              THEN [d1 EXCEPT !.daily_targets[date_str] =
                       Put(@, user_id, [name |-> user_name, targets |-> PList(<<>>)])]
              ELSE d1
        user_data == migrate_on_add(d2.daily_targets[date_str][user_id])
    IN IF load_error(f) # "none" THEN NotSaved(f, load_error(f))
       ELSE IF user_data["targets"].t # "list" THEN NotSaved(f, "AttributeError")
       ELSE [file |-> save_data([d2 EXCEPT !.daily_targets[date_str][user_id] =
                   Put(user_data, "targets",
                       PList(user_data["targets"].l
                             \o <<appended_target(d2.daily_targets[date_str][user_id], target)>>))]),
             reply |-> "target_added",
             target_count |-> Len(user_data["targets"].l) + 1]

show_user_targets_for_date(f, user_id, date_str) ==
    LET data == load_data(f)
    IN IF load_error(f) # "none" THEN NotSaved(f, load_error(f))
       ELSE IF ~HasTargets(data, date_str, user_id) THEN NotSaved(f, "no_targets")
       ELSE IF /\ HasKey(data.daily_targets[date_str][user_id], "targets")
               /\ Unrecognized(data.daily_targets[date_str][user_id]["targets"])
       THEN NotSaved(f, "TypeError")
       ELSE LET c == convert_targets(data.daily_targets[date_str][user_id])
                d1 == [data EXCEPT !.daily_targets[date_str][user_id] = c.user]
                f1 == IF c.converted THEN save_data(d1) ELSE f
            IN IF \E i \in DOMAIN c.targets : c.targets[i].t = "str"
               THEN NotSaved(f1, "TypeError")
               ELSE NotSaved(f1, "targets_shown")

set_today_target(f, user_id, user_name, args, today_str) ==
    IF args = <<>> THEN show_user_targets_for_date(f, user_id, today_str)
    ELSE add_target(f, user_id, user_name, today_str, Join(args, <<" ">>))

set_date_target(f, user_id, user_name, args) ==
    IF Len(args) < 2 THEN NotSaved(f, "usage")
    ELSE IF ~strptime(args[1]).ok THEN NotSaved(f, "bad_date")
    ELSE add_target(f, user_id, user_name, args[1], Join(Tail(args), <<" ">>))

list_my_targets(f, user_id, args, today_str) ==
    IF args # <<>>
    THEN IF lower(args[1]) = TodayWord THEN show_user_targets_for_date(f, user_id, today_str)
         ELSE IF ~strptime(args[1]).ok THEN NotSaved(f, "bad_date")
         ELSE show_user_targets_for_date(f, user_id, args[1])
    ELSE show_user_targets_for_date(f, user_id, today_str)

\* line 219 without the test: every call completes again
already_completed_never(target_obj) == FALSE
\* line 219: if target_obj["completed"]
already_completed(target_obj) == target_obj.completed

\* lines 223-225: mark as completed
mark_completed(target_obj, stamp) ==
    [target_obj EXCEPT !.completed = TRUE, !.completed_at = stamp]

complete_goal(f, user_id, args, today_str, stamp) ==
    IF Len(args) < 2 THEN NotSaved(f, "usage")
    ELSE IF lower(args[1]) # TodayWord /\ ~strptime(args[1]).ok THEN NotSaved(f, "bad_date")
    ELSE IF ~PyInt(args[2]).ok \/ PyInt(args[2]).val < 1 THEN NotSaved(f, "invalid_number")
    ELSE LET date_str == IF lower(args[1]) = TodayWord THEN today_str ELSE args[1]
             target_number == PyInt(args[2]).val
             data == load_data(f)
         IN IF load_error(f) # "none" THEN NotSaved(f, load_error(f))
            ELSE IF ~HasTargets(data, date_str, user_id) THEN NotSaved(f, "no_targets")
            ELSE IF /\ HasKey(data.daily_targets[date_str][user_id], "targets")
                    /\ Unrecognized(data.daily_targets[date_str][user_id]["targets"])
            THEN NotSaved(f, "TypeError")
            ELSE LET c == convert_targets(data.daily_targets[date_str][user_id])
                     d1 == [data EXCEPT !.daily_targets[date_str][user_id] = c.user]
                     f1 == IF c.converted THEN save_data(d1) ELSE f
                 IN IF target_number > Len(c.targets) THEN NotSaved(f1, "out_of_range")
                    ELSE IF c.targets[target_number].t = "str" THEN NotSaved(f1, "TypeError")
                    ELSE IF already_completed(c.targets[target_number])
                    THEN NotSaved(f1, "already_completed")
                    ELSE LET targets == [c.targets EXCEPT ![target_number] =
                                            mark_completed(@, stamp)]
                             d2 == StoreTargets(d1, date_str, user_id, c, targets)
                         IN IF \E i \in DOMAIN targets : targets[i].t = "str"
                            THEN Saved(d2, "TypeError")
                            ELSE Saved(d2, "goal_completed")

\* lines 1051-1056 left out: the emptied list stays where it is
delete_target_cleanup_none(data, today_str, user_id, targets) == data
\* a plausible slip: the date's entry is dropped as soon as the user's list is empty
delete_target_cleanup_date(data, today_str, user_id, targets) ==
    IF targets = <<>> THEN [data EXCEPT !.daily_targets = Del(@, today_str)] ELSE data
\* lines 1051-1056: no empty user entry and no empty date entry is left
delete_target_cleanup(data, today_str, user_id, targets) ==
    IF targets = <<>>
    THEN LET d1 == [data EXCEPT !.daily_targets[today_str] = Del(@, user_id)]
         IN IF d1.daily_targets[today_str] = EmptyDict
            THEN [d1 EXCEPT !.daily_targets = Del(@, today_str)]
            ELSE d1
    ELSE data

delete_target(f, user_id, args, today_str) ==
    IF Len(args) < 1 THEN NotSaved(f, "usage")
    ELSE IF ~PyInt(args[1]).ok \/ PyInt(args[1]).val < 1 THEN NotSaved(f, "invalid_number")
    ELSE LET target_number == PyInt(args[1]).val
             data == load_data(f)
         IN IF load_error(f) # "none" THEN NotSaved(f, load_error(f))
            ELSE IF ~HasTargets(data, today_str, user_id) THEN NotSaved(f, "no_targets")
            ELSE IF Unrecognized(StoredTargets(data.daily_targets[today_str][user_id]))
            THEN NotSaved(f, "TypeError")
            ELSE LET c == convert_with_old_key(data.daily_targets[today_str][user_id])
                 IN IF target_number > Len(c.targets) THEN NotSaved(f, "out_of_range")
                    ELSE LET targets == ListPop(c.targets, target_number - 1)
                             d1 == StoreTargets(data, today_str, user_id, c, targets)
                         IN Saved(delete_target_cleanup(d1, today_str, user_id, targets),
                                  "target_deleted")

\* lines 1114-1121 with the new dict built in both branches
edit_target_text_fresh(target_obj, new_target) == NewTarget(new_target)
\* lines 1114-1121: the text of a dict is replaced, a string becomes a new dict
edit_target_text(target_obj, new_target) ==
    IF target_obj.t = "dict" THEN [target_obj EXCEPT !.text = new_target, !.wraps = <<>>]
    ELSE NewTarget(new_target)

edit_target(f, user_id, args, today_str) ==
    IF Len(args) < 2 THEN NotSaved(f, "usage")
    ELSE IF ~PyInt(args[1]).ok \/ PyInt(args[1]).val < 1 THEN NotSaved(f, "invalid_number")
    ELSE LET target_number == PyInt(args[1]).val
             new_target == Join(Tail(args), <<" ">>)
             data == load_data(f)
         IN IF load_error(f) # "none" THEN NotSaved(f, load_error(f))
            ELSE IF ~HasTargets(data, today_str, user_id) THEN NotSaved(f, "no_targets")
            ELSE IF Unrecognized(StoredTargets(data.daily_targets[today_str][user_id]))
            THEN NotSaved(f, "TypeError")
            ELSE LET c == convert_with_old_key(data.daily_targets[today_str][user_id])
                 IN IF target_number > Len(c.targets) THEN NotSaved(f, "out_of_range")
                    ELSE LET targets == [c.targets EXCEPT ![target_number] =
                                            edit_target_text(@, new_target)]
                         IN Saved(StoreTargets(data, today_str, user_id, c, targets),
                                  "target_updated")

\* lines 964-978: every user's record of today is converted, and the document
\* saved when some record was
view_today_targets(f, today_str) ==
    LET data == load_data(f)
    IN IF load_error(f) # "none" THEN NotSaved(f, load_error(f))
       ELSE IF ~HasKey(data, "daily_targets") \/ ~HasKey(data.daily_targets, today_str)
          \/ data.daily_targets[today_str] = EmptyDict
       THEN NotSaved(f, "no_targets_today")
       ELSE IF \E u \in DOMAIN data.daily_targets[today_str] :
                  Unrecognized(StoredTargets(data.daily_targets[today_str][u]))
       THEN NotSaved(f, "TypeError")
       ELSE LET today == data.daily_targets[today_str]
                d1 == [data EXCEPT !.daily_targets[today_str] =
                          [u \in DOMAIN today |-> convert_with_old_key(today[u]).user]]
            IN IF \E u \in DOMAIN today : convert_with_old_key(today[u]).converted
               THEN Saved(d1, "today_shown")
               ELSE NotSaved(f, "today_shown")

dashboard(f, user_id, today_str) ==
    LET data == load_data(f)
    IN IF load_error(f) # "none" THEN NotSaved(f, load_error(f))
       ELSE IF ~HasKey(data, "subjects") \/ data.subjects = EmptyDict
       THEN NotSaved(f, "no_subjects")
       ELSE IF /\ HasTargets(data, today_str, user_id)
               /\ Unrecognized(StoredTargets(data.daily_targets[today_str][user_id]))
       THEN NotSaved(f, "TypeError")
       ELSE IF HasTargets(data, today_str, user_id)
       THEN LET c == convert_with_old_key(data.daily_targets[today_str][user_id])
            IN IF c.converted
               THEN Saved([data EXCEPT !.daily_targets[today_str][user_id] = c.user],
                          "dashboard_shown")
               ELSE NotSaved(f, "dashboard_shown")
       ELSE NotSaved(f, "dashboard_shown")

(***************************************************************************)
(* The text of data.json.  A Python value as json sees it is a record      *)
(* [j, s, n, k, a]: the kind, the characters of a str, the number of an    *)
(* int, the keys of a dict and the elements of a list or values of a dict. *)
(* A text is a sequence of characters; a TLA+ string of several letters in *)
(* it stands for a run of plain characters (a word, an indentation).       *)
(***************************************************************************)
JValue(j, s, n, k, a) == [j |-> j, s |-> s, n |-> n, k |-> k, a |-> a]
JNull == JValue("null", <<>>, 0, <<>>, <<>>)
JBool(b) == JValue(IF b THEN "true" ELSE "false", <<>>, 0, <<>>, <<>>)
JNum(n) == JValue("int", <<>>, n, <<>>, <<>>)
JStr(s) == JValue("str", s, 0, <<>>, <<>>)
JArr(a) == JValue("list", <<>>, 0, <<>>, a)
JObj(k, a) == JValue("dict", <<>>, 0, k, a)

Backslash == "\\"
NL == "\n"
Indent(d) == [i \in 1..d |-> "    "]

RECURSIVE Digits(_)
Digits(n) ==
    IF n < 10 THEN <<DigitChars[n + 1]>>
    ELSE Digits(n \div 10) \o <<DigitChars[(n % 10) + 1]>>

\* the encoder writes the characters of a string as they are
Escape_none(s) == s
\* the encoder writes a quote and a backslash behind a backslash
RECURSIVE Escape(_)
Escape(s) ==
    IF s = <<>> THEN <<>>
    ELSE (IF Head(s) \in {Q, Backslash} THEN <<Backslash, Head(s)>> ELSE <<Head(s)>>)
         \o Escape(Tail(s))

\* json.dump(data, f, indent=4): the text of value v at nesting depth d
RECURSIVE json_dumps(_, _)
RECURSIVE DumpItems(_, _, _)
json_dumps(v, d) ==
    CASE v.j \in {"null", "true", "false"} -> <<v.j>>
      [] v.j = "int" -> Digits(v.n)
      [] v.j = "str" -> <<Q>> \o Escape(v.s) \o <<Q>>
      [] v.j = "list" ->
            IF v.a = <<>> THEN <<"[", "]">>
            ELSE <<"[">> \o DumpItems(v, d + 1, 1) \o <<NL>> \o Indent(d) \o <<"]">>
      [] v.j = "dict" ->
            IF v.a = <<>> THEN <<"{", "}">>
            ELSE <<"{">> \o DumpItems(v, d + 1, 1) \o <<NL>> \o Indent(d) \o <<"}">>
DumpItems(v, d, i) ==
    IF i > Len(v.a) THEN <<>>
    ELSE (IF i > 1 THEN <<",">> ELSE <<>>) \o <<NL>> \o Indent(d)
         \o (IF v.j = "dict" THEN <<Q>> \o Escape(v.k[i]) \o <<Q, ":", " ">> ELSE <<>>)
         \o json_dumps(v.a[i], d) \o DumpItems(v, d, i + 1)

\* json.load(f): the decoder, reading the text t from position i
JsonWhitespace == {" ", NL, "    "}
RECURSIVE SkipWs(_, _)
SkipWs(t, i) == IF i <= Len(t) /\ t[i] \in JsonWhitespace THEN SkipWs(t, i + 1) ELSE i
Parsed(v, i) == [ok |-> TRUE, v |-> v, i |-> i]
ParseFail == [ok |-> FALSE, v |-> JNull, i |-> 0]
ScanFail == [ok |-> FALSE, s |-> <<>>, i |-> 0]

\* the characters of a string up to its closing quote; i is behind the opening one
RECURSIVE ScanString(_, _, _)
ScanString(t, i, acc) ==
    IF i > Len(t) \/ t[i] = NL THEN ScanFail
    ELSE IF t[i] = Q THEN [ok |-> TRUE, s |-> acc, i |-> i + 1]
    ELSE IF t[i] = Backslash
    THEN IF i + 1 > Len(t) \/ t[i + 1] \notin {Q, Backslash} THEN ScanFail
         ELSE ScanString(t, i + 2, Append(acc, t[i + 1]))
    ELSE ScanString(t, i + 1, Append(acc, t[i]))

RECURSIVE ScanNumber(_, _, _)
ScanNumber(t, i, n) ==
    IF i <= Len(t) /\ IsDigit(t[i]) THEN ScanNumber(t, i + 1, n * 10 + DigitVal(t[i]))
    ELSE Parsed(JNum(n), i)

RECURSIVE ParseValue(_, _)
RECURSIVE ParseItems(_, _, _, _, _)
ParseValue(t, i) ==
    IF i > Len(t) THEN ParseFail
    ELSE CASE t[i] = "null" -> Parsed(JNull, i + 1)
           [] t[i] = "true" -> Parsed(JBool(TRUE), i + 1)
           [] t[i] = "false" -> Parsed(JBool(FALSE), i + 1)
           [] t[i] = Q -> LET r == ScanString(t, i + 1, <<>>)
                          IN IF r.ok THEN Parsed(JStr(r.s), r.i) ELSE ParseFail
           [] IsDigit(t[i]) -> ScanNumber(t, i, 0)
           [] t[i] = "[" -> ParseItems(t, SkipWs(t, i + 1), "list", <<>>, <<>>)
           [] t[i] = "{" -> ParseItems(t, SkipWs(t, i + 1), "dict", <<>>, <<>>)
           [] OTHER -> ParseFail
\* the elements of a list or the members of a dict; k and a are those read so far
ParseItems(t, i, j, k, a) ==
    LET closing == IF j = "list" THEN "]" ELSE "}"
        key == IF j = "list" THEN [ok |-> TRUE, s |-> <<>>, i |-> i]
               ELSE IF t[i] = Q THEN ScanString(t, i + 1, <<>>) ELSE ScanFail
        colon == SkipWs(t, key.i)
        r == ParseValue(t, IF j = "list" THEN i ELSE SkipWs(t, colon + 1))
        e == SkipWs(t, r.i)
        keys == IF j = "list" THEN k ELSE Append(k, key.s)
    IN IF i > Len(t) THEN ParseFail
       ELSE IF t[i] = closing
       THEN IF a = <<>> THEN Parsed(JValue(j, <<>>, 0, k, a), i + 1) ELSE ParseFail
       ELSE IF ~key.ok THEN ParseFail
       ELSE IF j = "dict" /\ (colon > Len(t) \/ t[colon] # ":") THEN ParseFail
       ELSE IF ~r.ok \/ e > Len(t) THEN ParseFail
       ELSE IF t[e] = "," THEN ParseItems(t, SkipWs(t, e + 1), j, keys, Append(a, r.v))
       ELSE IF t[e] = closing THEN Parsed(JValue(j, <<>>, 0, keys, Append(a, r.v)), e + 1)
       ELSE ParseFail

\* the value of a text, or JSONDecodeError
json_loads(t) ==
    LET r == ParseValue(t, SkipWs(t, 1))
    IN IF r.ok /\ SkipWs(t, r.i) = Len(t) + 1 THEN [ok |-> TRUE, v |-> r.v]
       ELSE [ok |-> FALSE, v |-> JNull]

\* the document as the Python value it is
Word(w) == <<w>>
RECURSIVE SeqOf(_)
SeqOf(S) == IF S = {} THEN <<>> ELSE LET x == CHOOSE x \in S : TRUE IN <<x>> \o SeqOf(S \ {x})
StampText(stamp) == stamp[1] \o <<" ", "0", "0", ":", "0", "0", ":", "0", DigitChars[stamp[2] + 1]>>

PyMilestones(l) ==
    JArr([i \in DOMAIN l |->
             JObj(<<Word("date"), Word("description")>>,
                  <<JStr(l[i].date), JStr(l[i].description)>>)])
RECURSIVE PyTarget(_)
PyTarget(x) ==
    IF x.t = "str" THEN JStr(x.text)
    ELSE JObj(<<Word("text"), Word("completed"), Word("completed_at")>>,
              <<IF x.wraps = <<>> THEN JStr(x.text) ELSE PyTarget(x.wraps[1]),
                JBool(x.completed),
                IF x.completed_at = None THEN JNull ELSE JStr(StampText(x.completed_at))>>)
PyTargets(v) ==
    IF v.t = "str" THEN JStr(v.s) ELSE JArr([i \in DOMAIN v.l |-> PyTarget(v.l[i])])
PyUserTargets(r) ==
    LET ks == SeqOf(DOMAIN r)
    IN JObj([i \in DOMAIN ks |-> Word(ks[i])],
            [i \in DOMAIN ks |->
                IF ks[i] = "name" THEN JStr(Word(r[ks[i]])) ELSE PyTargets(r[ks[i]])])
PyDailyTargets(dt) ==
    LET ds == SeqOf(DOMAIN dt)
    IN JObj(ds, [i \in DOMAIN ds |->
                    LET us == SeqOf(DOMAIN dt[ds[i]])
                    IN JObj([j \in DOMAIN us |-> Word(us[j])],
                            [j \in DOMAIN us |-> PyUserTargets(dt[ds[i]][us[j]])])])
PySubjects(sub) ==
    LET ks == SeqOf(DOMAIN sub)
    IN JObj(ks, [i \in DOMAIN ks |->
                    JObj(<<Word("topics"), Word("total_topics")>>,
                         <<JArr([j \in DOMAIN sub[ks[i]].topics |->
                                    JStr(sub[ks[i]].topics[j])]),
                           JNum(sub[ks[i]].total_topics)>>)])
PyProgressEntry(e) ==
    IF e.kind = "str" THEN JStr(Word(e.str))
    ELSE JObj(<<Word("completed_topics")>>
                  \o (IF e.last_updated = None THEN <<>> ELSE <<Word("last_updated")>>),
              <<JArr([j \in DOMAIN e.completed_topics |-> JStr(e.completed_topics[j])])>>
                  \o (IF e.last_updated = None THEN <<>> ELSE <<JStr(e.last_updated)>>))
PyProgress(up) ==
    LET us == SeqOf(DOMAIN up)
    IN JObj([i \in DOMAIN us |-> Word(us[i])],
            [i \in DOMAIN us |->
                LET es == SeqOf(DOMAIN up[us[i]])
                IN JObj(es, [j \in DOMAIN es |-> PyProgressEntry(up[us[i]][es[j]])])])
PyDocument(data) ==
    JObj(<<Word("milestones"), Word("daily_targets"), Word("reminders"), Word("subjects"),
           Word("user_progress")>>,
         <<PyMilestones(data.milestones), PyDailyTargets(data.daily_targets),
           JObj(<<>>, <<>>), PySubjects(data.subjects), PyProgress(data.user_progress)>>)

\* what save_data(data) writes
json_dump(data) == json_dumps(PyDocument(data), 0)

Chats == {"private", "group"}
NoJob == <<>>
NoJobs == [c \in Chats |-> [job |-> NoJob, scheduled_job |-> NoJob]]
NotPending == <<>>

(***************************************************************************)
(* Reminders and scheduled commands.  A chat's chat_data holds at most one *)
(* reminder job under 'job' and one scheduled job under its                *)
(* 'scheduled_job_<chat id>' key; a job is what run_daily was given, and   *)
(* schedule_removal() marks it removed.  The handlers return the chat_data *)
(* they leave and the kind of their reply.                                 *)
(***************************************************************************)
Job(callback, hour, minute, job_data) ==
    [callback |-> callback, hour |-> hour, minute |-> minute, data |-> job_data, removed |-> FALSE]
schedule_removal(j) == [j EXCEPT !.removed = TRUE]
JobsLeft(cd, r) == [cd |-> cd, reply |-> r]

\* hour, minute = map(int, time_str.split(':')): exactly two integers, or ValueError
parse_time(time_str) ==
    LET parts == Split(time_str, ":")
    IN IF Len(parts) = 2 /\ PyInt(parts[1]).ok /\ PyInt(parts[2]).ok
       THEN [ok |-> TRUE, hour |-> PyInt(parts[1]).val, minute |-> PyInt(parts[2]).val]
       ELSE [ok |-> FALSE, hour |-> 0, minute |-> 0]
\* datetime(1, 1, 1, hour, minute) raises ValueError outside these ranges
valid_time(hour, minute) == hour \in 0..23 /\ minute \in 0..59

MessageWord == <<"m", "e", "s", "s", "a", "g", "e">>
ViewTodayWord == <<"v", "i", "e", "w", "_", "t", "o", "d", "a", "y">>
StatusWord == <<"s", "t", "a", "t", "u", "s">>

set_daily_reminder(cd, admin, args) ==
    IF ~admin THEN JobsLeft(cd, "denied")
    ELSE IF Len(args) < 1 THEN JobsLeft(cd, "usage")
    ELSE LET t == parse_time(args[1])
             removed == IF cd.job # NoJob
                        THEN [cd EXCEPT !.job = <<schedule_removal(@[1])>>]
                        ELSE cd
         IN IF ~t.ok THEN JobsLeft(cd, "usage")
            ELSE IF ~valid_time(t.hour, t.minute) THEN JobsLeft(removed, "usage")
            ELSE JobsLeft([cd EXCEPT !.job = <<Job("daily_reminder_job", t.hour, t.minute,
                                                   [command |-> "reminder", message |-> <<>>])>>],
                          "reminder_set")

\* a stop that does not ask who sends it
stop_daily_reminder_unguarded(cd, admin) ==
    IF cd.job = NoJob THEN JobsLeft(cd, "no_reminder")
    ELSE JobsLeft([cd EXCEPT !.job = NoJob], "reminder_stopped")
stop_daily_reminder(cd, admin) ==
    IF ~admin THEN JobsLeft(cd, "denied")
    ELSE IF cd.job = NoJob THEN JobsLeft(cd, "no_reminder")
    ELSE JobsLeft([cd EXCEPT !.job = NoJob], "reminder_stopped")

schedule_command(cd, admin, args) ==
    IF ~admin THEN JobsLeft(cd, "denied")
    ELSE IF Len(args) < 3 THEN JobsLeft(cd, "usage")
    ELSE LET t == parse_time(args[1])
             command_type == lower(args[2])
             message == Strip(Join(SubSeq(args, 3, Len(args)), <<" ">>), {Q})
             job_data == IF command_type = MessageWord
                         THEN [command |-> "custom", message |-> message]
                         ELSE IF command_type = ViewTodayWord
                         THEN [command |-> "view_today", message |-> <<>>]
                         ELSE [command |-> "status", message |-> <<>>]
             removed == IF cd.scheduled_job # NoJob
                        THEN [cd EXCEPT !.scheduled_job = <<schedule_removal(@[1])>>]
                        ELSE cd
         IN IF ~t.ok THEN JobsLeft(cd, "usage")
            ELSE IF command_type \notin {MessageWord, ViewTodayWord, StatusWord}
            THEN JobsLeft(cd, "supported_commands")
            ELSE IF ~valid_time(t.hour, t.minute) THEN JobsLeft(removed, "usage")
            ELSE JobsLeft([cd EXCEPT !.scheduled_job =
                              <<Job("schedule_command_job", t.hour, t.minute, job_data)>>],
                          "command_scheduled")

stop_scheduled_command(cd, admin) ==
    IF ~admin THEN JobsLeft(cd, "denied")
    ELSE IF cd.scheduled_job = NoJob THEN JobsLeft(cd, "no_scheduled_command")
    ELSE JobsLeft([cd EXCEPT !.scheduled_job = NoJob], "scheduled_command_stopped")

\* The callbacks of the jobs: they return the file they leave and the kind of
\* message they send ("job_silent": none), or the exception that escapes.
daily_reminder_job(f, today) ==
    LET data == load_data(f)
    IN IF load_error(f) # "none" THEN NotSaved(f, load_error(f))
       ELSE IF data.milestones = <<>> THEN NotSaved(f, "job_silent")
       ELSE IF next_deadline(data.milestones, today) = None THEN NotSaved(f, "job_silent")
       ELSE NotSaved(f, "job_reminder")

\* the view_today branch: the old format is converted in the loaded copy only
scheduled_view_today_saving(f, today_str) ==
    LET data == load_data(f)
    IN IF load_error(f) # "none" THEN NotSaved(f, load_error(f))
       ELSE IF ~HasKey(data, "daily_targets") \/ ~HasKey(data.daily_targets, today_str)
          \/ data.daily_targets[today_str] = EmptyDict
       THEN NotSaved(f, "job_no_targets_today")
       ELSE IF \E u \in DOMAIN data.daily_targets[today_str] :
                  Unrecognized(StoredTargets(data.daily_targets[today_str][u]))
       THEN NotSaved(f, "TypeError")
       ELSE LET today == data.daily_targets[today_str]
                d1 == [data EXCEPT !.daily_targets[today_str] =
                          [u \in DOMAIN today |-> convert_with_old_key(today[u]).user]]
            IN Saved(d1, "job_today")
scheduled_view_today(f, today_str) ==
    LET data == load_data(f)
    IN IF load_error(f) # "none" THEN NotSaved(f, load_error(f))
       ELSE IF ~HasKey(data, "daily_targets") \/ ~HasKey(data.daily_targets, today_str)
          \/ data.daily_targets[today_str] = EmptyDict
       THEN NotSaved(f, "job_no_targets_today")
       ELSE IF \E u \in DOMAIN data.daily_targets[today_str] :
                  Unrecognized(StoredTargets(data.daily_targets[today_str][u]))
       THEN NotSaved(f, "TypeError")
       ELSE LET today == data.daily_targets[today_str]
                d1 == [data EXCEPT !.daily_targets[today_str] =
                          [u \in DOMAIN today |-> convert_with_old_key(today[u]).user]]
            IN NotSaved(f, IF d1 = data THEN "job_today" ELSE "job_today_converted")

scheduled_status(f, today) ==
    LET data == load_data(f)
    IN IF load_error(f) # "none" THEN NotSaved(f, load_error(f))
       ELSE IF next_deadline(data.milestones, today) = None
       THEN NotSaved(f, "job_status_no_deadline")
       ELSE NotSaved(f, "job_status_next_deadline")

schedule_command_job(f, job_data, today_str, today) ==
    IF job_data.command = "view_today" THEN scheduled_view_today(f, today_str)
    ELSE IF job_data.command = "status" THEN scheduled_status(f, today)
    ELSE IF job_data.message # <<>> THEN NotSaved(f, "job_message")
    ELSE NotSaved(f, "job_silent")

(***************************************************************************)
(* The commands as actions.  A handler returns the file it leaves and the  *)
(* kind of its reply (or the exception that escapes it).                   *)
(***************************************************************************)
Do(r) ==
    /\ pending = NotPending
    /\ file' = r.file
    /\ reply' = r.reply
    /\ UNCHANGED <<now, jobs, pending>>
\* a job command in a chat
DoJobs(chat, r) ==
    /\ pending = NotPending
    /\ jobs' = [jobs EXCEPT ![chat] = r.cd]
    /\ reply' = r.reply
    /\ UNCHANGED <<file, now, pending>>

\* who calls: an admin in a private chat, an admin and a non-admin in a group
Callers == {[chat |-> [type |-> "private", admins |-> {}], user |-> "u2"],
            [chat |-> [type |-> "group", admins |-> {"u1"}], user |-> "u1"],
            [chat |-> [type |-> "group", admins |-> {"u1"}], user |-> "u2"]}
Admin(c) == is_admin(c.chat, c.user)
GroupAdmin == [chat |-> [type |-> "group", admins |-> {"u1"}], user |-> "u1"]

SubjectTokens == {<<"m">>, NameKey}
\* the words after the subject: topics "a", "b", "a,a", "b, a" (two words), or none
TopicArgs == {<< <<"a">> >>, << <<"b">> >>, << <<"a", ",", "a">> >>, << <<"b", ",">>, <<"a">> >>}
SyllabusArgs ==
    {<< <<"m">> >> \o t : t \in TopicArgs \cup {<<>>}}
        \cup {<< <<Q, "m", Q>>, <<"a">> >>, <<NameKey, <<"a">> >>, <<>>}
\* the words are varied for the group's admin; the other callers, one turned
\* away and one admitted, send the bare command
ArgsFor(c, S) == IF c = GroupAdmin THEN S ELSE {<<>>}
ActionWords == {"add", "ADD", "remove", "replace", "swap"}

AddSubject ==
    \E c \in Callers : \E args \in ArgsFor(c, SyllabusArgs) : Do(add_subject(file, Admin(c), args))

DeleteSubject ==
    \E c \in Callers : \E args \in ArgsFor(c, {<<s>> : s \in SubjectTokens} \cup {<<>>}) :
        Do(delete_subject(file, Admin(c), args))

DeleteTopic ==
    \E c \in Callers : \E args \in ArgsFor(c, SyllabusArgs) : Do(delete_topic(file, Admin(c), args))

EditTopics ==
    \E c \in Callers : \E args \in ArgsFor(c, SyllabusArgs), a \in ActionWords :
        Do(edit_topics(file, Admin(c),
                       IF args = <<>> THEN <<>> ELSE <<args[1], a>> \o Tail(args)))

CompleteTopic ==
    \E u \in Users, args \in SyllabusArgs :
        Do(complete_topic(file, u, FirstName(u), args, TodayStr))

DateWords == {<<"2", "0", "2", "5", "-", "0", "8", "-", "0", "9">>,
              <<"2", "0", "2", "5", "-", "8", "-", "1", "0">>,
              <<"2", "0", "2", "5", "-", "0", "8", "-", "1", "1">>,
              <<"2", "0", "2", "5", "-", "0", "2", "-", "3", "0">>,
              <<"x">>}
DescriptionArgs == {<< <<"x">> >>, << <<Q, "y", Q>> >>}
NumberWords == {<<"1">>, <<"2">>, <<"3">>, <<"0">>, <<"-", "1">>, <<"x">>}
D1 == <<"2", "0", "2", "5", "-", "0", "8", "-", "0", "9">>

SetMilestone ==
    /\ Len(load_data(file).milestones) < MaxMilestones
    /\ \E c \in Callers :
         \E args \in ArgsFor(c, {<<d>> \o t : d \in DateWords, t \in DescriptionArgs}
                                 \cup {<<>>}) :
            Do(set_milestone(file, Admin(c), args))

EditMilestone ==
    \E c \in Callers :
        \E args \in ArgsFor(c, {<<n, "date", d>> : n \in NumberWords, d \in DateWords}
                                \cup {<<n, "description">> \o t :
                                         n \in NumberWords, t \in DescriptionArgs}
                                \cup {<< <<"1">>, "Date", D1>>, << <<"1">>, "colour", D1>>,
                                      << <<"1">> >>, <<>>}) :
            Do(edit_milestone(file, Admin(c), args))

DeleteMilestone ==
    \E c \in Callers : \E args \in ArgsFor(c, {<<n>> : n \in NumberWords} \cup {<<>>}) :
        Do(delete_milestone(file, Admin(c), args))

ClearPlan == \E c \in Callers : Do(clear_plan(file, Admin(c)))

ViewPlan == Do(view_plan(file))

Status == Do(status(file, now))

ViewSubjects == Do(view_subjects(file))

ViewTopics ==
    \E u \in Users, args \in {<<s>> : s \in SubjectTokens} \cup {<<>>} :
        Do(view_topics(file, u, args))

X == <<"x">>
Y == <<"y">>
D2 == <<"2", "0", "2", "5", "-", "0", "8", "-", "1", "0">>

\* the stored elements of all users on all dates
TargetSlots(data) ==
    UNION {UNION {{<<d, u, i>> : i \in DOMAIN Elems(StoredTargets(data.daily_targets[d][u]))} :
                     u \in DOMAIN data.daily_targets[d]} :
              d \in DOMAIN data.daily_targets}
RoomForTarget == Cardinality(TargetSlots(load_data(file))) < MaxTotalTargets

SetTodayTarget ==
    \E u \in Users, args \in {<<>>, <<X>>} :
        /\ args # <<>> => RoomForTarget
        /\ Do(set_today_target(file, u, FirstName(u), args, TodayStr))

SetDateTarget ==
    \E args \in {<<D2, X>>, <<X, X>>, <<D2>>} :
        /\ RoomForTarget
        /\ Do(set_date_target(file, "u1", FirstName("u1"), args))

GoalArgs ==
    {<<d, n>> : d \in {TodayWord, D2}, n \in {<<"1">>, <<"2">>, <<"3">>}}
    \cup {<< <<"T", "o", "d", "a", "y">>, <<"1">> >>, <<X, <<"1">> >>, <<TodayWord, <<"0">> >>,
          <<TodayWord, X>>, <<TodayWord>>}
CompleteGoal ==
    \E u \in Users, args \in GoalArgs :
        Do(complete_goal(file, u, args, TodayStr, Timestamp))

DeleteTarget ==
    \E u \in Users, args \in {<<n>> : n \in NumberWords} \cup {<<>>} :
        Do(delete_target(file, u, args, TodayStr))

EditTarget ==
    \E u \in Users, args \in {<<n, Y>> : n \in NumberWords} \cup {<< <<"1">> >>} :
        Do(edit_target(file, u, args, TodayStr))

ListMyTargets ==
    \E u \in Users, args \in {<<>>, <<TodayWord>>, <<D2>>, <<X>>} :
        Do(list_my_targets(file, u, args, TodayStr))

ViewTodayTargets == Do(view_today_targets(file, TodayStr))

Dashboard == \E u \in Users : Do(dashboard(file, u, TodayStr))

\* the admin's /add_subject m a, which opens the dashboard
AddSubjectM == Do(add_subject(file, TRUE, << <<"m">>, <<"a">> >>))

\* the clock moves within the day, or to the next midnight
Tick == now.tod = 0 /\ now' = [now EXCEPT !.tod = 1] /\ UNCHANGED <<file, reply, jobs, pending>>
NextDay == now.day < MaxDay /\ now' = [day |-> now.day + 1, tod |-> 0] /\ UNCHANGED <<file, reply, jobs, pending>>

Init ==
    /\ file = MissingFile
    /\ now = [day |-> 1, tod |-> 0]
    /\ reply = "none"
    /\ jobs = NoJobs
    /\ pending = NotPending

NextSyllabus ==
    \/ AddSubject
    \/ DeleteSubject
    \/ DeleteTopic
    \/ EditTopics
    \/ CompleteTopic
    \/ ViewSubjects
    \/ ViewTopics

SpecSyllabus == Init /\ [][NextSyllabus]_vars

NextLedger ==
    \/ SetMilestone
    \/ EditMilestone
    \/ DeleteMilestone
    \/ ClearPlan
    \/ ViewPlan
    \/ Status
    \/ Tick
    \/ NextDay

SpecLedger == Init /\ [][NextLedger]_vars

NextTargets ==
    \/ SetTodayTarget
    \/ SetDateTarget
    \/ CompleteGoal
    \/ DeleteTarget
    \/ EditTarget
    \/ ListMyTargets
    \/ ViewTodayTargets
    \/ Dashboard
    \/ AddSubjectM
    \/ Tick

SpecTargets == Init /\ [][NextTargets]_vars

\* the target commands on a document that also holds a milestone, a subject
\* and the users' progress in it
SetMilestoneX == load_data(file).milestones = <<>> /\ Do(set_milestone(file, TRUE, <<D1, X>>))
AddSubjectAgain ==
    \E s \in SubjectTokens, t \in {<<"a">>, <<"b", ",", "a">>} :
        Do(add_subject(file, TRUE, <<s, t>>))
CompleteTopicA ==
    \E u \in Users : Do(complete_topic(file, u, FirstName(u), << <<"m">>, <<"a">> >>, TodayStr))
\* the numbered target commands on the first target
CompleteGoalFirst ==
    \E u \in Users, d \in {TodayWord, D2} :
        Do(complete_goal(file, u, <<d, <<"1">> >>, TodayStr, Timestamp))
DeleteTargetFirst == \E u \in Users : Do(delete_target(file, u, << <<"1">> >>, TodayStr))
EditTargetFirst == \E u \in Users : Do(edit_target(file, u, << <<"1">>, Y>>, TodayStr))

NextMixed ==
    \/ SetMilestoneX
    \/ AddSubjectAgain
    \/ CompleteTopicA
    \/ SetTodayTarget
    \/ SetDateTarget
    \/ CompleteGoalFirst
    \/ DeleteTargetFirst
    \/ EditTargetFirst
    \/ ListMyTargets
    \/ ViewTodayTargets
    \/ Dashboard
    \/ ViewPlan

SpecMixed == Init /\ [][NextMixed]_vars

\* some commands that write or read the document, as the handlers' results on file f
StoreCommands(f) ==
    (IF Len(load_data(f).milestones) < MaxMilestones
     THEN {set_milestone(f, TRUE, <<d, t>>) : d \in {D1, D2}, t \in {X, <<"x", Q, "y">>}}
     ELSE {})
    \cup (IF Cardinality(TargetSlots(load_data(f))) < MaxTotalTargets
          THEN {set_today_target(f, "u1", FirstName("u1"), <<X>>, TodayStr)}
          ELSE {})
    \cup {complete_goal(f, "u1", <<TodayWord, <<"1">> >>, TodayStr, Timestamp),
          add_subject(f, TRUE, << <<"m">>, <<"a">> >>),
          complete_topic(f, "u1", FirstName("u1"), << <<"m">>, <<"a">> >>, TodayStr),
          view_plan(f)}

StoreCommand == \E r \in StoreCommands(file) : Do(r)

\* save_data is cut short behind open(DATA_FILE, 'w'), which has emptied the
\* file, and before json.dump has written all of the text: the process is
\* killed or the write fails
SaveInterrupted ==
    /\ load_error(file) = "none"
    /\ \E r \in StoreCommands(file) : r.file # file
    /\ file' = PartialFile
    /\ reply' = "none"
    /\ UNCHANGED <<now, jobs, pending>>

InitStore ==
    /\ file \in {MissingFile, PartialFile, BytesFile}
    /\ now = [day |-> 1, tod |-> 0]
    /\ reply = "none"
    /\ jobs = NoJobs
    /\ pending = NotPending

NextStore ==
    \/ StoreCommand
    \/ SaveInterrupted
    \/ Tick

SpecStore == InitStore /\ [][NextStore]_vars

\* records written by older versions of the bot, and a canonical one
LegacyRecords ==
    {[name |-> "Ann", targets |-> PList(<<StrItem(<<"a">>), StrItem(<<"b">>)>>)],
     [name |-> "Ann", targets |-> PList(<<StrItem(<<"a">>)>>)],
     [name |-> "Ann", target |-> PString(<<"a", "b">>)],
     [name |-> "Ann", target |-> PList(<<StrItem(<<"a">>)>>)],
     [name |-> "Ann", targets |-> PList(<<NewTarget(<<"a">>)>>)]}

LegacyDocument(r) ==
    [DefaultDocument EXCEPT
        !.subjects = Put(EmptyDict, <<"m">>, [topics |-> << <<"a">> >>, total_topics |-> 1]),
        !.daily_targets = Put(EmptyDict, D1, Put(EmptyDict, "u1", r))]

InitLegacy ==
    /\ \E r \in LegacyRecords : file = save_data(LegacyDocument(r))
    /\ now = [day |-> 1, tod |-> 0]
    /\ reply = "none"
    /\ jobs = NoJobs
    /\ pending = NotPending

SpecLegacy == InitLegacy /\ [][NextTargets]_vars

\* the same commands on a document whose record of u1 for the first day holds a
\* value that is neither a list nor a string
UnrecognizedRecords ==
    {[name |-> "Ann", targets |-> PNumber],
     [name |-> "Ann", targets |-> PNull],
     [name |-> "Ann", target |-> PNumber],
     [name |-> "Ann", target |-> PNull]}

InitShapes ==
    /\ \E r \in UnrecognizedRecords : file = save_data(LegacyDocument(r))
    /\ now = [day |-> 1, tod |-> 0]
    /\ reply = "none"
    /\ jobs = NoJobs
    /\ pending = NotPending

SpecShapes == InitShapes /\ [][NextTargets]_vars

\* Every command on one document, the clock held: the milestone commands
\* while no subject and no target is stored, the syllabus commands while no
\* milestone and no target is stored, the target commands while no milestone
\* and no subject is stored.
NoLedger == load_data(file).milestones = <<>>
NoSyllabus == load_data(file).subjects = EmptyDict /\ load_data(file).user_progress = EmptyDict
NoTargets == load_data(file).daily_targets = EmptyDict

LedgerCommand ==
    /\ NoSyllabus /\ NoTargets
    /\ (SetMilestone \/ EditMilestone \/ DeleteMilestone \/ ClearPlan \/ ViewPlan \/ Status)
SyllabusCommand ==
    /\ NoLedger /\ NoTargets
    /\ NextSyllabus
TargetCommand ==
    /\ NoLedger /\ NoSyllabus
    /\ (SetTodayTarget \/ SetDateTarget \/ CompleteGoal \/ DeleteTarget \/ EditTarget
          \/ ListMyTargets \/ ViewTodayTargets \/ Dashboard)

NextCommands ==
    \/ LedgerCommand
    \/ SyllabusCommand
    \/ TargetCommand

SpecCommands == Init /\ [][NextCommands]_vars

(***************************************************************************)
(* The reminder and schedule commands, the jobs they register, and the     *)
(* admin commands sent by somebody who is not an admin.                    *)
(***************************************************************************)
T7 == <<"7", ":", "0", "0">>
T25 == <<"2", "5", ":", "0", "0">>
ReminderArgs == {<<T7>>, <<T25>>, <<X>>, <<>>}
ScheduleArgs ==
    {<<t, c, m>> : t \in {T7, T25}, c \in {StatusWord, MessageWord}, m \in {X, <<Q, Q>>}}
    \cup {<<T7, <<"v", "i", "e", "w", "_", "T", "o", "d", "a", "y">>, X>>, <<T7, ViewTodayWord>>,
          <<X, StatusWord, X>>, <<T7, X, X>>, <<>>}

SetDailyReminder ==
    \E c \in Callers : \E args \in ArgsFor(c, ReminderArgs) :
        DoJobs(c.chat.type, set_daily_reminder(jobs[c.chat.type], Admin(c), args))

StopDailyReminder ==
    \E c \in Callers : DoJobs(c.chat.type, stop_daily_reminder(jobs[c.chat.type], Admin(c)))

ScheduleCommand ==
    \E c \in Callers : \E args \in ArgsFor(c, ScheduleArgs) :
        DoJobs(c.chat.type, schedule_command(jobs[c.chat.type], Admin(c), args))

StopScheduledCommand ==
    \E c \in Callers : DoJobs(c.chat.type, stop_scheduled_command(jobs[c.chat.type], Admin(c)))

\* a registered job that was not removed runs
Runs(j) == j # NoJob /\ ~j[1].removed
\* the job queue runs its callbacks on the event loop, also while a handler
\* waits at an await
JobRuns(r) == file' = r.file /\ reply' = r.reply /\ UNCHANGED <<now, jobs, pending>>
DailyReminderJob ==
    \E chat \in Chats : Runs(jobs[chat].job) /\ JobRuns(daily_reminder_job(file, now))

ScheduleCommandJob ==
    \E chat \in Chats :
        /\ Runs(jobs[chat].scheduled_job)
        /\ JobRuns(schedule_command_job(file, jobs[chat].scheduled_job[1].data, TodayStr, now))

\* /edit_topics in two steps: on add, remove and replace the handler changes
\* the loaded document, awaits reply_text, and calls save_data only when the
\* reply has gone out; pending holds the document it has still to save.  The
\* other paths return without a save.
EditReplies == {"topics_added", "topic_removed", "topics_replaced"}
EditTopicsReplies ==
    /\ pending = NotPending
    /\ \E args \in {<< <<"m">>, "add", <<"b">> >>, << <<"m">>, "remove", <<"b">> >>,
                     << <<"m">>, "replace", <<"a">> >>} :
          LET r == edit_topics(file, TRUE, args)
          IN /\ reply' = r.reply
             /\ pending' = IF r.reply \in EditReplies THEN <<r.file>> ELSE NotPending
             /\ UNCHANGED <<file, now, jobs>>
EditTopicsSaves ==
    /\ pending # NotPending
    /\ file' = pending[1]
    /\ pending' = NotPending
    /\ UNCHANGED <<now, reply, jobs>>

\* the twelve admin commands as a member of the group who is not an admin sends them
NonAdmin == [chat |-> [type |-> "group", admins |-> {"u1"}], user |-> "u2"]
NonAdminDocument(f) ==
    {set_milestone(f, Admin(NonAdmin), a) : a \in {<<>>, <<D2, X>>}}
    \cup {edit_milestone(f, Admin(NonAdmin), a) : a \in {<<>>, << <<"1">>, "description", X>>}}
    \cup {delete_milestone(f, Admin(NonAdmin), a) : a \in {<<>>, << <<"1">> >>}}
    \cup {clear_plan(f, Admin(NonAdmin))}
    \cup {add_subject(f, Admin(NonAdmin), a) : a \in {<<>>, << <<"m">>, <<"b">> >>}}
    \cup {edit_topics(f, Admin(NonAdmin), a) : a \in {<<>>, << <<"m">>, "add", <<"b">> >>}}
    \cup {delete_topic(f, Admin(NonAdmin), a) : a \in {<<>>, << <<"m">>, <<"a">> >>}}
    \cup {delete_subject(f, Admin(NonAdmin), a) : a \in {<<>>, << <<"m">> >>}}
NonAdminJobs(cd) ==
    {set_daily_reminder(cd, Admin(NonAdmin), a) : a \in {<<>>, <<T7>>, <<T25>>}}
    \cup {stop_daily_reminder(cd, Admin(NonAdmin))}
    \cup {schedule_command(cd, Admin(NonAdmin), a) : a \in {<<>>, <<T7, StatusWord, X>>}}
    \cup {stop_scheduled_command(cd, Admin(NonAdmin))}

NonAdminCommand ==
    \/ \E r \in NonAdminDocument(file) : Do(r)
    \/ \E r \in NonAdminJobs(jobs["group"]) : DoJobs("group", r)

\* the commands that fill the document while the jobs run
MemberCommand ==
    \/ /\ Len(load_data(file).milestones) < MaxMilestones
       /\ \E d \in {D1, D2} : Do(set_milestone(file, TRUE, <<d, X>>))
    \/ /\ RoomForTarget
       /\ Do(set_today_target(file, "u1", FirstName("u1"), <<X>>, TodayStr))

InitJobs ==
    /\ \/ file \in {MissingFile, BytesFile}
       \/ \E r \in LegacyRecords : file = save_data(LegacyDocument(r))
    /\ now = [day |-> 1, tod |-> 0]
    /\ reply = "none"
    /\ jobs = NoJobs
    /\ pending = NotPending

NextJobs ==
    \/ SetDailyReminder
    \/ StopDailyReminder
    \/ ScheduleCommand
    \/ StopScheduledCommand
    \/ DailyReminderJob
    \/ ScheduleCommandJob
    \/ NonAdminCommand
    \/ MemberCommand
    \/ EditTopicsReplies
    \/ EditTopicsSaves

SpecJobs == InitJobs /\ [][NextJobs]_vars

(***************************************************************************)
(* What is read off a state.                                               *)
(***************************************************************************)
Doc == load_data(file)
Subjects == Doc.subjects
Progress == Doc.user_progress
\* the users' progress entries of a subject: the dict values of a progress dict
ProgressEntries == {<<u, s>> \in Users \X {<<"m">>, NameKey} :
                        /\ HasKey(Progress, u) /\ HasKey(Progress[u], s)
                        /\ Progress[u][s].kind = "dict"}

(***************************************************************************)
(* Claims about the syllabus, under SpecSyllabus.                          *)
(***************************************************************************)

\* C1: every completed topic of every user for a subject is one of the
\* subject's current topics, after any sequence of syllabus commands.
C1_ReferentialIntegrity ==
    \A e \in ProgressEntries :
        HasKey(Subjects, e[2]) =>
            \A i \in DOMAIN Progress[e[1]][e[2]].completed_topics :
                Contains(Subjects[e[2]].topics, Progress[e[1]][e[2]].completed_topics[i])

\* C2: total_topics equals the length of topics for every subject.
C2_TotalTopics ==
    \A s \in DOMAIN Subjects : Subjects[s].total_topics = Len(Subjects[s].topics)

C2_Witness ==
    /\ reply \in {"topics_added", "topic_removed", "topic_deleted", "topics_replaced"}
    /\ \E s \in DOMAIN Subjects : Subjects[s].total_topics = 3

\* C7: the topic names of a subject are pairwise distinct.
C7_TopicsDistinct ==
    \A s \in DOMAIN Subjects :
        \A i, j \in DOMAIN Subjects[s].topics :
            i # j => Subjects[s].topics[i] # Subjects[s].topics[j]

\* C8: no command that computes a progress percentage raises ZeroDivisionError.
C8_DivisionSafe == reply # "ZeroDivisionError"

(***************************************************************************)
(* Claims about the milestones, under SpecLedger.                          *)
(***************************************************************************)
Milestones == Doc.milestones

\* C3: the milestone list is in ascending order of its date strings in every
\* persisted state.
C3_MilestonesSorted ==
    \A i, j \in DOMAIN Milestones :
        i < j => ~StrLess(Milestones[j].date, Milestones[i].date)

C3_Witness ==
    /\ reply = "milestone_updated"
    /\ Len(Milestones) = 3
    /\ Milestones[1].date # Milestones[2].date
    /\ Milestones[2].date # Milestones[3].date

(***************************************************************************)
(* Claims about the daily targets from the empty document, under           *)
(* SpecTargets.                                                            *)
(***************************************************************************)
DailyTargets == Doc.daily_targets
UserRecords ==
    UNION {{<<d, u>> : u \in DOMAIN DailyTargets[d]} : d \in DOMAIN DailyTargets}
\* the list of a user on a date, empty when there is no such entry
TargetsOf(data, d, u) ==
    IF HasTargets(data, d, u) THEN Elems(StoredTargets(data.daily_targets[d][u])) ELSE <<>>

\* C4: no empty container persists in daily_targets: every date key maps to
\* at least one user and every user entry holds at least one target.
C4_NoEmptyContainers ==
    \A d \in DOMAIN DailyTargets :
        /\ DOMAIN DailyTargets[d] # {}
        /\ \A u \in DOMAIN DailyTargets[d] :
               /\ HasKey(DailyTargets[d][u], "targets")
               /\ DailyTargets[d][u]["targets"].t = "list"
               /\ Len(DailyTargets[d][u]["targets"].l) >= 1

\* the user's last target of today was deleted while another date is kept:
\* the user entry and the date key of today are gone
C4_Witness ==
    /\ reply = "target_deleted"
    /\ ~HasKey(DailyTargets, TodayStr)
    /\ HasKey(DailyTargets, D2)

\* complete_goal called twice in succession with the same date, user and
\* position, the second call at any time of the same day
CompleteTwice(u, args) ==
    LET first == complete_goal(file, u, args, TodayStr, Timestamp)
        date_str == IF lower(args[1]) = TodayWord THEN TodayStr ELSE args[1]
        target_obj == TargetsOf(load_data(first.file), date_str, u)[PyInt(args[2]).val]
    IN first.reply = "goal_completed" =>
          /\ target_obj.completed
          /\ target_obj.completed_at = Timestamp
          /\ \A tod \in {0, 1} :
                LET second == complete_goal(first.file, u, args, TodayStr, <<TodayStr, tod>>)
                IN /\ second.reply = "already_completed"
                   /\ second.file = first.file

\* C5: of two successive complete_goal calls on the same date, user and
\* position the first sets completed and stamps completed_at, the second
\* reports already completed and leaves the whole document as the first
\* left it.
C5_CompletionMonotone == \A u \in Users, args \in GoalArgs : CompleteTwice(u, args)

\* the second call came later in the day and the stamp is that of midnight
C5_Witness ==
    /\ reply = "already_completed"
    /\ now.tod = 1
    /\ \E e \in UserRecords :
          \E i \in DOMAIN TargetsOf(Doc, e[1], e[2]) :
              TargetsOf(Doc, e[1], e[2])[i].completed_at = <<TodayStr, 0>>

C6_CompletedIffStamped ==
    \A e \in UserRecords :
        \A i \in DOMAIN TargetsOf(Doc, e[1], e[2]) :
            TargetsOf(Doc, e[1], e[2])[i].completed
                <=> TargetsOf(Doc, e[1], e[2])[i].completed_at # None

\* a step keeps the targets of a list in place and appends not-completed
\* ones, or takes one target out of the list
C6_Step(before, after) ==
    \/ /\ Len(after) >= Len(before)
       /\ \A i \in DOMAIN before :
              before[i].completed =>
                  after[i].completed /\ after[i].completed_at = before[i].completed_at
       /\ \A i \in (Len(before) + 1)..Len(after) :
              ~after[i].completed /\ after[i].completed_at = None
    \/ \E k \in DOMAIN before : after = ListPop(before, k - 1)

\* C6: a target is created not completed with completed_at null, completed
\* holds exactly when completed_at is not null, and no command makes a
\* completed target not completed while it stays in its list.
C6_CompletionLifecycle ==
    /\ []C6_CompletedIffStamped
    /\ [][\A d \in {D1, D2}, u \in Users :
              C6_Step(TargetsOf(Doc, d, u), TargetsOf(load_data(file'), d, u))]_vars

\* a completed target was edited and is still completed
C6_Witness ==
    /\ reply = "target_updated"
    /\ \E u \in Users :
          \E i \in DOMAIN TargetsOf(Doc, TodayStr, u) :
              /\ TargetsOf(Doc, TodayStr, u)[i].completed
              /\ TargetsOf(Doc, TodayStr, u)[i].text = Y

(***************************************************************************)
(* Claims about records of older versions, under SpecLegacy.               *)
(***************************************************************************)
CanonicalTarget(target_obj) == target_obj.t = "dict" /\ target_obj.wraps = <<>>
CanonicalRecord(r) ==
    /\ HasKey(r, "targets")
    /\ ~HasKey(r, "target")
    /\ r["targets"].t = "list"
    /\ \A i \in DOMAIN r["targets"].l : CanonicalTarget(r["targets"].l[i])

\* C9: a handler that reads or changes a user's targets first turns the
\* legacy record into the canonical list, so that the record a handler has
\* written holds canonical {text, completed, completed_at} objects only.
C9_LegacyNormalized ==
    [][\A e \in UserRecords :
          LET after == load_data(file')
          IN (HasTargets(after, e[1], e[2])
              /\ after.daily_targets[e[1]][e[2]] # DailyTargets[e[1]][e[2]])
             => CanonicalRecord(after.daily_targets[e[1]][e[2]])]_vars

\* the three conversions of the handlers, as maps of the user record
ConvertOnAdd(r) == migrate_on_add(r)
ConvertOnList(r) == convert_targets(r).user
ConvertOnEdit(r) == convert_with_old_key(r).user

\* C10: each handler's conversion leaves a canonical record as it is, and
\* run on its own output changes nothing.
C10_ConversionIdempotent ==
    \A e \in UserRecords :
        LET r == DailyTargets[e[1]][e[2]]
        IN /\ CanonicalRecord(r) =>
                  ConvertOnAdd(r) = r /\ ConvertOnList(r) = r /\ ConvertOnEdit(r) = r
           /\ ConvertOnAdd(ConvertOnAdd(r)) = ConvertOnAdd(r)
           /\ ConvertOnList(ConvertOnList(r)) = ConvertOnList(r)
           /\ ConvertOnEdit(ConvertOnEdit(r)) = ConvertOnEdit(r)

\* the list of two strings was converted by /view_today and is canonical
C10_Witness ==
    /\ reply = "today_shown"
    /\ HasTargets(Doc, D1, "u1")
    /\ DailyTargets[D1]["u1"] =
           [name |-> "Ann", targets |-> PList(<<NewTarget(<<"a">>), NewTarget(<<"b">>)>>)]

(***************************************************************************)
(* Claims about load_data and save_data, under SpecStore.                  *)
(***************************************************************************)
EmptyDocument(data) ==
    /\ data.milestones = <<>>
    /\ DOMAIN data.daily_targets = {}
    /\ DOMAIN data.subjects = {}
    /\ DOMAIN data.user_progress = {}

\* C11: load_data never fails with an error to its caller, and for a missing
\* file and for malformed content it returns the empty document with
\* milestones, daily_targets, subjects and user_progress present and empty.
C11_LoadTotal ==
    /\ reply # "UnicodeDecodeError"
    /\ (file.kind # "json" /\ load_error(file) = "none") => EmptyDocument(load_data(file))

\* C12: saving a document and loading the text gives the document back, and
\* saving what was loaded writes the same text again.
C12_RoundTrip ==
    file.kind = "json" =>
        LET loaded == json_loads(json_dump(file.doc))
        IN /\ loaded.ok
           /\ loaded.v = PyDocument(file.doc)
           /\ json_dumps(loaded.v, 0) = json_dump(file.doc)

\* a document with a quote inside a description, a completed target and a
\* completed topic has been saved
C12_Witness ==
    /\ file.kind = "json"
    /\ \E i \in DOMAIN Doc.milestones : Contains(Doc.milestones[i].description, Q)
    /\ \E e \in UserRecords :
          \E i \in DOMAIN TargetsOf(Doc, e[1], e[2]) : TargetsOf(Doc, e[1], e[2])[i].completed
    /\ reply = "topic_completed"

\* C13: after every step the file holds a complete document or loads as the
\* document it held before, also when save_data is cut short.
C13_NoPartialWrite == [][file'.kind = "json" \/ load_data(file') = load_data(file)]_vars

\* C14: an admin command sent by somebody who is not an admin is answered
\* with the denial before the document is loaded (so even a file that cannot
\* be read gives the denial, not the read error), and it leaves the document
\* and the chat's registered jobs as they were.
C14_DeniedEverywhere ==
    /\ \A r \in NonAdminDocument(file) : r = NotSaved(file, "denied")
    /\ \A r \in NonAdminJobs(jobs["group"]) : r = JobsLeft(jobs["group"], "denied")
C14_DenialNoSideEffects ==
    /\ []C14_DeniedEverywhere
    /\ [][reply' = "denied" => file' = file /\ jobs' = jobs]_vars
\* a denial on a document with a milestone, in a chat with both jobs registered
C14_Witness ==
    /\ reply = "denied"
    /\ file.kind = "json" /\ file.doc.milestones # <<>>
    /\ Runs(jobs["group"].job) /\ Runs(jobs["group"].scheduled_job)
\* a denial on a file that cannot be read
C14_WitnessUnreadable == reply = "denied" /\ file = BytesFile

\* C15: a command that is rejected (usage, invalid number, not found, out of
\* range, already completed, all topics already exist, a bad date or an unknown
\* field of edit_milestone, an unknown action of edit_topics) leaves a
\* canonical document as it was.
RejectReplies ==
    {"usage", "invalid_number", "invalid_milestone_number", "no_milestones",
     "milestone_out_of_range", "subject_not_found", "topic_not_found", "all_topics_exist",
     "invalid_action", "bad_date", "out_of_range", "already_completed",
     "topic_already_completed", "no_targets"}
C15_RejectedUnchanged == [][reply' \in RejectReplies => file' = file]_vars
\* rejections of each part: a milestone number out of range, a bad date of
\* edit_milestone, an unknown action of edit_topics, a completed goal
C15_Witness ==
    /\ reply \in {"invalid_milestone_number", "milestone_out_of_range", "invalid_action",
                   "already_completed", "all_topics_exist"}
    /\ file.kind = "json"
    /\ file.doc.milestones # <<>> \/ file.doc.subjects # EmptyDict
          \/ file.doc.daily_targets # EmptyDict

\* C16: on every document that the commands build from the empty document, no
\* handler lets an exception escape to the framework's error handler: every
\* step ends with a reply, not with an exception.
Exceptions == {"TypeError", "ZeroDivisionError", "AttributeError", "UnicodeDecodeError"}
C16_NoExceptionEscapes == reply \notin Exceptions

\* C17: no handler waits at an await between its load_data and its
\* save_data: it is never suspended holding a changed document it has not
\* saved, so a success reply is out only when the change is in the file.
C17_NoAwaitBeforeSave == pending = NotPending

\* C18: the callbacks of the scheduled jobs never write the document, on
\* canonical data and on data in the old target formats: a run of a job
\* leaves the file as it was, whatever the job finds in it.
JobData ==
    {[command |-> "view_today", message |-> <<>>], [command |-> "status", message |-> <<>>],
     [command |-> "custom", message |-> X], [command |-> "custom", message |-> <<>>]}
C18_JobsReadOnly ==
    /\ [](/\ daily_reminder_job(file, now).file = file
          /\ \A d \in JobData : schedule_command_job(file, d, TodayStr, now).file = file)
    /\ [][DailyReminderJob \/ ScheduleCommandJob => file' = file]_vars
\* the scheduled view_today has run on a record in an old format, which is
\* still in the file in that format
C18_Witness ==
    /\ reply = "job_today_converted"
    /\ \E p \in UserRecords : ~CanonicalRecord(DailyTargets[p[1]][p[2]])

\* C19: the next deadline, as status, daily_reminder_job and the scheduled
\* status compute it, is the first milestone in list order whose day lies
\* after the current day; a milestone dated on the current day is never the
\* result; there is none when the ledger is empty or holds no later day.
LaterDay(ms) == DayNum(strptime(ms.date)) > DayNum(Today)
C19_NextDeadline ==
    LET nd == next_deadline(Milestones, now)
    IN /\ (nd = None) = (\A i \in DOMAIN Milestones : ~LaterDay(Milestones[i]))
       /\ nd # None =>
             \E i \in DOMAIN Milestones :
                /\ nd = Milestones[i]
                /\ LaterDay(Milestones[i])
                /\ \A j \in 1..(i - 1) : ~LaterDay(Milestones[j])
       /\ nd # None => DayNum(strptime(nd.date)) # DayNum(Today)
       /\ (status(file, now).reply = "status_next_deadline") = (nd # None)
       /\ (daily_reminder_job(file, now).reply = "job_reminder") = (nd # None)
       /\ (scheduled_status(file, now).reply = "job_status_next_deadline") = (nd # None)
\* /status has named a deadline that stands behind a milestone of the current day
C19_Witness ==
    /\ reply = "status_next_deadline"
    /\ Len(Milestones) >= 2
    /\ DayNum(strptime(Milestones[1].date)) = DayNum(Today)
    /\ next_deadline(Milestones, now) = Milestones[2]
    /\ status(file, now).reply = "status_next_deadline"

\* C20: /delete_milestone n with 1 <= n <= the length of the ledger removes
\* the n-th milestone and no other, keeps the others in their order, and
\* reports the milestone it removed; on an empty ledger or with n beyond the
\* length it removes nothing.
Without(l, n) == [i \in 1..(Len(l) - 1) |-> IF i < n THEN l[i] ELSE l[i + 1]]
C20_Delete(n) ==
    LET r == delete_milestone(file, TRUE, <<Digits(n)>>)
    IN IF n <= Len(Milestones)
       THEN /\ r.reply = "milestone_deleted"
            /\ load_data(r.file).milestones = Without(Milestones, n)
            /\ r.deleted_milestone = Milestones[n]
       ELSE /\ r.file = file
            /\ r.reply = IF Milestones = <<>> THEN "no_milestones" ELSE "milestone_out_of_range"
C20_DeleteExact ==
    /\ [](\A n \in 1..(MaxMilestones + 1) : C20_Delete(n))
    /\ [][DeleteMilestone /\ reply' = "milestone_deleted" =>
             \E n \in DOMAIN Milestones : load_data(file').milestones = Without(Milestones, n)]_vars
    /\ [][DeleteMilestone /\ reply' \in {"no_milestones", "milestone_out_of_range"}
             => file' = file]_vars
\* a milestone has been deleted and two different ones are left
C20_Witness ==
    /\ reply = "milestone_deleted"
    /\ Len(Milestones) = 2
    /\ Milestones[1] # Milestones[2]

\* C21: adding a target (/today <goal>, /set_date_target <date> <goal>)
\* creates the containers of the date and the user when they are absent,
\* appends one target with the goal as its text, not completed and without
\* completion time, behind the targets the user had, which keep their text,
\* order and completion state, and reports the new length as the position.
PreviousTargets(data, d, u) ==
    IF ~HasTargets(data, d, u) THEN <<>>
    ELSE LET v == StoredTargets(data.daily_targets[d][u])
         IN IF v.t = "str" THEN <<StrItem(v.s)>> ELSE v.l
C21_Add(u, d, text) ==
    LET r == add_target(file, u, FirstName(u), d, text)
        before == PreviousTargets(Doc, d, u)
        after == load_data(r.file).daily_targets[d][u]["targets"].l
    IN r.reply = "target_added" =>
          /\ HasTargets(load_data(r.file), d, u)
          /\ Len(after) = Len(before) + 1
          /\ after[Len(after)] = NewTarget(text)
          /\ \A i \in DOMAIN before :
                /\ after[i].text = before[i].text
                /\ after[i].completed = before[i].completed
                /\ after[i].completed_at = before[i].completed_at
          /\ r.target_count = Len(after)
C21_AddTarget == \A u \in Users, d \in {TodayStr, D2} : C21_Add(u, d, Y)

\* C22: /edit_target n <text> replaces the text of the n-th target of today
\* and nothing else: its completed flag and completion time, the length of
\* the list and every other target stay as they were, also when the n-th
\* target is completed.
C22_Edit(u, n) ==
    LET r == edit_target(file, u, <<Digits(n), Y>>, TodayStr)
        before == TargetsOf(Doc, TodayStr, u)
        after == TargetsOf(load_data(r.file), TodayStr, u)
    IN IF n <= Len(before) /\ HasTargets(Doc, TodayStr, u)
       THEN /\ r.reply = "target_updated"
            /\ Len(after) = Len(before)
            /\ after[n].text = Y
            /\ \A i \in DOMAIN before :
                  /\ after[i].completed = before[i].completed
                  /\ after[i].completed_at = before[i].completed_at
                  /\ i # n => after[i].text = before[i].text
       ELSE r.file = file
C22_EditTextOnly == \A u \in Users, n \in 1..(MaxTotalTargets + 1) : C22_Edit(u, n)

\* C23: /delete_subject S takes S out of subjects and, in the document it
\* saves, out of the progress of every user; after any sequence of syllabus
\* commands every subject for which some user has a progress entry is a key
\* of subjects.
C23_NoOrphanedProgress ==
    /\ \A e \in ProgressEntries : HasKey(Subjects, e[2])
    /\ \A s \in DOMAIN Subjects :
          LET r == delete_subject(file, TRUE, <<s>>)
              after == load_data(r.file)
          IN /\ r.reply = "subject_deleted"
             /\ ~HasKey(after.subjects, s)
             /\ \A u \in DOMAIN after.user_progress : ~HasKey(after.user_progress[u], s)
\* a subject in which a user had completed a topic has been deleted
C23_Witness ==
    /\ reply = "subject_deleted"
    /\ HasKey(Progress, "u1")
    /\ ~HasKey(Progress["u1"], <<"m">>)
    /\ ~HasKey(Subjects, <<"m">>)

\* C24: in the document saved by /edit_topics S remove, /edit_topics S
\* replace or /delete_topic S, no user's completed topics for S hold a topic
\* that is not in the new topics of S, and the completed topics that are
\* left stand in their former order.
C24_Post(r, s) ==
    LET after == load_data(r.file)
    IN \A u \in DOMAIN after.user_progress :
          (HasKey(after.user_progress[u], s) /\ after.user_progress[u][s].kind = "dict") =>
             LET ct == after.user_progress[u][s].completed_topics
             IN /\ \A i \in DOMAIN ct : Contains(after.subjects[s].topics, ct[i])
                /\ ct = SelectSeq(Progress[u][s].completed_topics, LAMBDA t : Contains(ct, t))
C24_TopicArgs == {<<"a">>, <<"b">>, <<"a", ",", "b">>}
C24_PrunedProgress ==
    \A t \in C24_TopicArgs :
        LET del == delete_topic(file, TRUE, << <<"m">>, t>>)
            rem == edit_topics(file, TRUE, << <<"m">>, "remove", t>>)
            rep == edit_topics(file, TRUE, << <<"m">>, "replace", t>>)
        IN /\ del.reply = "topic_deleted" => C24_Post(del, <<"m">>)
           /\ rem.reply = "topic_removed" => C24_Post(rem, <<"m">>)
           /\ rep.reply = "topics_replaced" => C24_Post(rep, <<"m">>)

\* C25: /delete_topic S T does what /edit_topics S remove T does: from the
\* same document both save the same document (or both save nothing), and
\* /delete_topic reports exactly the users whose completed topics for S held
\* T before the call.
C25_Same(s, t) ==
    LET del == delete_topic(file, TRUE, <<s, t>>)
        rem == edit_topics(file, TRUE, <<s, "remove", t>>)
    IN /\ del.file = rem.file
       /\ rem.reply # "topic_removed" => del.reply = rem.reply
       /\ rem.reply = "topic_removed" =>
             /\ del.reply = "topic_deleted"
             /\ del.removed_from_users =
                   {u \in Users : /\ HasKey(Progress, u) /\ HasKey(Progress[u], s)
                                  /\ Contains(Progress[u][s].completed_topics, t)}
C25_DeleteTopicIsRemove ==
    \A s \in SubjectTokens, t \in {<<"a">>, <<"b">>} : C25_Same(s, t)

\* C26: /complete S T by user u saves nothing when S or T is unknown and
\* nothing when T is already among u's completed topics for S; in every
\* other case it appends T once to u's completed topics for S and stamps
\* last_updated with today's date; and no user's completed topics for a
\* subject hold a topic twice.
C26_Complete(u, s, t) ==
    LET r == complete_topic(file, u, FirstName(u), <<s, t>>, TodayStr)
        after == load_data(r.file)
        known == HasKey(Subjects, s) /\ Contains(Subjects[s].topics, t)
        before == IF <<u, s>> \in ProgressEntries THEN Progress[u][s].completed_topics
                  ELSE <<>>
    IN IF ~known \/ Contains(before, t) THEN r.file = file
       ELSE /\ r.reply = "topic_completed"
            /\ after.user_progress[u][s] = PProg(before \o <<t>>, TodayStr)
C26_NoTopicTwice ==
    \A e \in ProgressEntries :
        LET ct == Progress[e[1]][e[2]].completed_topics
        IN \A i, j \in DOMAIN ct : ct[i] = ct[j] => i = j
C26_CompleteTopic ==
    /\ \A u \in Users, s \in SubjectTokens, t \in {<<"a">>, <<"b">>} : C26_Complete(u, s, t)
    /\ C26_NoTopicTwice

\* C27: /edit_topics S add appends to the topics of S, in the order given,
\* the supplied topics that S does not hold yet, and nothing else: the
\* topics S held stay in front in their order, the other subjects and every
\* user's progress are as before, and when S holds every supplied topic
\* nothing is saved.
C27_Supplied == {[words |-> << <<"a">> >>, topics |-> << <<"a">> >>],
                 [words |-> << <<"b">> >>, topics |-> << <<"b">> >>],
                 [words |-> << <<"b", ",">>, <<"a">> >>, topics |-> << <<"b">>, <<"a">> >>],
                 [words |-> << <<"c", ",", "b">> >>, topics |-> << <<"c">>, <<"b">> >>],
                 [words |-> << <<"a", ",", "a">> >>, topics |-> << <<"a">>, <<"a">> >>]}
C27_Add(s, p) ==
    LET r == edit_topics(file, TRUE, <<s, "add">> \o p.words)
        after == load_data(r.file)
        before == Subjects[s].topics
        fresh == SelectSeq(p.topics, LAMBDA t : ~Contains(before, t))
    IN IF fresh = <<>> THEN r.file = file
       ELSE /\ r.reply = "topics_added"
            /\ after.subjects[s].topics = before \o fresh
            /\ \A o \in DOMAIN Subjects : o # s => after.subjects[o] = Subjects[o]
            /\ DOMAIN after.subjects = DOMAIN Subjects
            /\ after.user_progress = Progress
C27_AddAppends ==
    \A s \in DOMAIN Subjects, p \in C27_Supplied : C27_Add(s, p)
\* topics were added to a subject that held a topic a user had completed
C27_Witness ==
    /\ reply = "topics_added"
    /\ <<"u1", <<"m">> >> \in ProgressEntries
    /\ Progress["u1"][<<"m">>].completed_topics # <<>>
    /\ Len(Subjects[<<"m">>].topics) >= 2

\* C28: every date stored in the ledger has the zero-padded form YYYY-MM-DD,
\* so the ledger, which is sorted by date string, is in the order of the
\* calendar days, and the next deadline, the first milestone in list order
\* that lies after the current day, is the earliest such day in the ledger.
C28_Padded(date_str) == strptime(date_str).ok /\ date_str = strftime(strptime(date_str))
C28_StoredDatesPadded ==
    /\ \A i \in DOMAIN Milestones : C28_Padded(Milestones[i].date)
    /\ \A i, j \in DOMAIN Milestones :
          i < j => DayNum(strptime(Milestones[i].date)) <= DayNum(strptime(Milestones[j].date))
    /\ LET nd == next_deadline(Milestones, now)
       IN nd # None =>
             \A i \in DOMAIN Milestones :
                LaterDay(Milestones[i]) =>
                   DayNum(strptime(nd.date)) <= DayNum(strptime(Milestones[i].date))

\* C29: a handler that migrates a record of an old shape saves the migrated
\* record on every path, the path that ends in a range error and the
\* scheduled view_today included: after delete_target, edit_target or the
\* scheduled view_today has run on a record of today that needed the
\* migration, the record in the file needs it no more.
C29_Migrated(r, u) ==
    ~convert_with_old_key(load_data(r.file).daily_targets[TodayStr][u]).converted
C29_WrittenBack ==
    \A u \in Users :
        (HasTargets(Doc, TodayStr, u) /\ convert_with_old_key(DailyTargets[TodayStr][u]).converted) =>
            /\ C29_Migrated(delete_target(file, u, <<Digits(9)>>, TodayStr), u)
            /\ C29_Migrated(edit_target(file, u, <<Digits(9), Y>>, TodayStr), u)
            /\ C29_Migrated(scheduled_view_today(file, TodayStr), u)

\* C30: a record whose target value is neither a list nor a string is taken
\* by every handler as a record with an empty list of targets, and no
\* handler raises on it: the views show no target, a numbered command answers
\* that the number is out of range, and /today makes the new target the
\* first and only one.
C30_Shaped(u) ==
    /\ HasTargets(Doc, TodayStr, u)
    /\ Unrecognized(StoredTargets(DailyTargets[TodayStr][u]))
C30_AsEmpty(u) ==
    LET add == add_target(file, u, FirstName(u), TodayStr, Y)
    IN /\ add.reply = "target_added"
       /\ TargetsOf(load_data(add.file), TodayStr, u) = <<NewTarget(Y)>>
       /\ show_user_targets_for_date(file, u, TodayStr).reply = "targets_shown"
       /\ complete_goal(file, u, <<TodayWord, Digits(1)>>, TodayStr, Timestamp).reply
             = "out_of_range"
       /\ delete_target(file, u, <<Digits(1)>>, TodayStr).reply = "out_of_range"
       /\ edit_target(file, u, <<Digits(1), Y>>, TodayStr).reply = "out_of_range"
       /\ view_today_targets(file, TodayStr).reply = "today_shown"
       /\ dashboard(file, u, TodayStr).reply = "dashboard_shown"
       /\ scheduled_view_today(file, TodayStr).reply = "job_today"
C30_TotalNormalization == \A u \in Users : C30_Shaped(u) => C30_AsEmpty(u)

\* C31: /set_milestone and /edit_milestone n description take exactly one
\* pair of surrounding quote characters off the description when there is
\* one: a description in two pairs keeps the inner pair, and a quote at one
\* end only stays.
C31_OnePair(w) ==
    IF Len(w) >= 2 /\ w[1] = Q /\ w[Len(w)] = Q THEN SubSeq(w, 2, Len(w) - 1) ELSE w
C31_Words == {<<"y">>, <<Q, "y", Q>>, <<Q, Q, "y", Q, Q>>, <<Q, "y">>, <<"y", Q>>}
C31_OnePairStripped ==
    \A w \in C31_Words :
        LET set == set_milestone(file, TRUE, <<D1, w>>)
            edit == edit_milestone(file, TRUE, << <<"1">>, "description", w>>)
        IN /\ set.reply = "milestone_set" /\
              \E i \in DOMAIN load_data(set.file).milestones :
                 load_data(set.file).milestones[i] = [date |-> D1, description |-> C31_OnePair(w)]
           /\ Milestones # <<>> =>
                 /\ edit.reply = "milestone_updated"
                 /\ load_data(edit.file).milestones[1].description = C31_OnePair(w)

(***************************************************************************)
(* Claims about what a command leaves alone, under SpecMixed.              *)
(***************************************************************************)

\* C32: /add_subject S on a subject that exists replaces the topics of S by
\* the topics given, without the old ones, sets total_topics to their
\* number, and leaves every other subject, the milestones and the daily
\* targets as they were.
C32_Replace(s, p) ==
    LET r == add_subject(file, TRUE, <<s>> \o p.words)
        after == load_data(r.file)
    IN /\ r.reply = "subject_added"
       /\ after.subjects[s] = [topics |-> p.topics, total_topics |-> Len(p.topics)]
       /\ DOMAIN after.subjects = DOMAIN Subjects
       /\ \A o \in DOMAIN Subjects : o # s => after.subjects[o] = Subjects[o]
       /\ after.milestones = Milestones
       /\ after.daily_targets = DailyTargets
C32_AddSubjectReplaces ==
    \A s \in DOMAIN Subjects, p \in C27_Supplied : C32_Replace(s, p)
\* /add_subject has been sent for a subject in which a user had completed a
\* topic, beside another subject, a milestone and a daily target
C32_Witness ==
    /\ reply = "subject_added"
    /\ <<"u1", <<"m">> >> \in ProgressEntries
    /\ HasKey(Subjects, NameKey)
    /\ Milestones # <<>>
    /\ DailyTargets # EmptyDict

\* C33: in every document reached from the empty one by syllabus commands,
\* the number of topics a user has completed in a subject is at most the
\* subject's total_topics, so that the percentage is at most 100 and the
\* dashboard's bar has between 0 and 10 filled and between 0 and 10 empty
\* segments.
C33_Filled(completed_topics, total_topics) ==
    IF total_topics > 0 THEN (completed_topics * 10) \div total_topics ELSE 0
C33_ProgressBounded ==
    \A e \in ProgressEntries :
        HasKey(Subjects, e[2]) =>
            LET completed_topics == Len(Progress[e[1]][e[2]].completed_topics)
                total_topics == Subjects[e[2]].total_topics
                filled == C33_Filled(completed_topics, total_topics)
            IN /\ completed_topics <= total_topics
               /\ filled \in 0..10
               /\ (10 - filled) \in 0..10

(***************************************************************************)
(* Claims about the registered jobs, under SpecJobs.                       *)
(***************************************************************************)

\* C34: a chat has at most one active reminder job and at most one active
\* scheduled job, and its chat_data holds an entry of a kind exactly when the
\* job of that kind is active; a set or schedule that succeeds leaves the
\* new job as the only one of its kind, a stop removes and forgets the job,
\* a stop with nothing registered changes nothing, and no command of one
\* kind touches the job of the other kind.
C34_EntryActive(cd) ==
    /\ cd.job # NoJob => (Len(cd.job) = 1 /\ ~cd.job[1].removed)
    /\ cd.scheduled_job # NoJob => (Len(cd.scheduled_job) = 1 /\ ~cd.scheduled_job[1].removed)
C34_Commands(cd) ==
    /\ \A args \in ReminderArgs :
          LET r == set_daily_reminder(cd, TRUE, args)
          IN /\ r.cd.scheduled_job = cd.scheduled_job
             /\ r.reply = "reminder_set" => Runs(r.cd.job)
    /\ \A args \in ScheduleArgs :
          LET r == schedule_command(cd, TRUE, args)
          IN /\ r.cd.job = cd.job
             /\ r.reply = "command_scheduled" => Runs(r.cd.scheduled_job)
    /\ LET r == stop_daily_reminder(cd, TRUE)
       IN /\ r.cd.job = NoJob
          /\ r.cd.scheduled_job = cd.scheduled_job
          /\ cd.job = NoJob => (r.cd = cd /\ r.reply = "no_reminder")
    /\ LET r == stop_scheduled_command(cd, TRUE)
       IN /\ r.cd.scheduled_job = NoJob
          /\ r.cd.job = cd.job
          /\ cd.scheduled_job = NoJob => (r.cd = cd /\ r.reply = "no_scheduled_command")
C34_OneJobPerKind ==
    \A c \in Chats : C34_EntryActive(jobs[c]) /\ C34_Commands(jobs[c])

\* C35: a /set_daily_reminder or /schedule that ends with the usage reply,
\* for a malformed time or for an hour or minute out of range such as
\* 25:00, leaves the chat's registered job of that kind active and the
\* chat_data as it was.
C35_UsageKeepsJob ==
    \A c \in Chats :
        /\ \A args \in ReminderArgs :
              LET r == set_daily_reminder(jobs[c], TRUE, args)
              IN r.reply = "usage" => r.cd = jobs[c]
        /\ \A args \in ScheduleArgs :
              LET r == schedule_command(jobs[c], TRUE, args)
              IN r.reply = "usage" => r.cd = jobs[c]

\* C36: a daily-target command of user u changes nothing but u's entry under
\* the date it addresses, the current date for /today, /edit_target and
\* /delete_target and the date given for /set_date_target and
\* /complete_goal: the entries of every other user, u's entries under every
\* other date, the milestones, the subjects and the users' progress are as
\* before.
C36_Frame(r, d, u) ==
    LET after == load_data(r.file)
    IN /\ after.milestones = Milestones
       /\ after.subjects = Subjects
       /\ after.user_progress = Progress
       /\ \A d2 \in {TodayStr, D2}, u2 \in Users :
             <<d2, u2>> # <<d, u>> =>
                /\ HasTargets(after, d2, u2) = HasTargets(Doc, d2, u2)
                /\ HasTargets(Doc, d2, u2) =>
                      after.daily_targets[d2][u2] = DailyTargets[d2][u2]
       /\ DOMAIN after.daily_targets \subseteq {TodayStr, D2}
C36_Isolated ==
    \A u \in Users :
        /\ C36_Frame(set_today_target(file, u, FirstName(u), <<X>>, TodayStr), TodayStr, u)
        /\ C36_Frame(set_date_target(file, u, FirstName(u), <<D2, X>>), D2, u)
        /\ \A n \in 1..(MaxTotalTargets + 1) :
              /\ C36_Frame(edit_target(file, u, <<Digits(n), Y>>, TodayStr), TodayStr, u)
              /\ C36_Frame(delete_target(file, u, <<Digits(n)>>, TodayStr), TodayStr, u)
              /\ C36_Frame(complete_goal(file, u, <<TodayWord, Digits(n)>>, TodayStr, Timestamp),
                           TodayStr, u)
              /\ C36_Frame(complete_goal(file, u, <<D2, Digits(n)>>, TodayStr, Timestamp), D2, u)
\* u1 has deleted the only target of the day while u2 holds one for the same
\* day, in a document with a milestone, a subject and progress
C36_Witness ==
    /\ reply = "target_deleted"
    /\ ~HasTargets(Doc, TodayStr, "u1")
    /\ HasTargets(Doc, TodayStr, "u2")
    /\ Milestones # <<>>
    /\ Subjects # EmptyDict
    /\ Progress # EmptyDict

\* C37: on a document in the canonical form, the commands that only show
\* something, /view_plan, /status, /view_today, /today without a goal,
\* /my_targets, /dashboard, /view_subjects and /view_topics, leave the
\* stored document exactly as it was.
C37_ReadOnly ==
    /\ view_plan(file).file = file
    /\ status(file, now).file = file
    /\ view_today_targets(file, TodayStr).file = file
    /\ view_subjects(file).file = file
    /\ \A u \in Users :
          /\ set_today_target(file, u, FirstName(u), <<>>, TodayStr).file = file
          /\ \A args \in {<<>>, <<TodayWord>>, <<D2>>, <<X>>} :
                list_my_targets(file, u, args, TodayStr).file = file
          /\ dashboard(file, u, TodayStr).file = file
          /\ \A args \in {<<sn>> : sn \in SubjectTokens} \cup {<<>>} :
                view_topics(file, u, args).file = file
\* the dashboard has been shown to a user who holds a completed target of
\* the day, in a document with a milestone and a subject
C37_Witness ==
    /\ reply = "dashboard_shown"
    /\ Milestones # <<>>
    /\ Subjects # EmptyDict
    /\ \E u \in Users :
          /\ HasTargets(Doc, TodayStr, u)
          /\ \E i \in DOMAIN TargetsOf(Doc, TodayStr, u) : TargetsOf(Doc, TodayStr, u)[i].completed

(***************************************************************************)
(* Claims about positions, under SpecCommands.                             *)
(***************************************************************************)

\* C38: positions count from 1: /complete_goal, /edit_target,
\* /delete_target, /delete_milestone and /edit_milestone turn away every
\* position that is zero or negative and leave the document as it was, so
\* no command reaches an element counted from the end of a list.
C38_Words == {<<"0">>, <<"-", "0">>, <<"-", "1">>, <<"-", "2">>}
C38_Rejected(r, replies) == r.file = file /\ r.reply \in replies
C38_OneBased ==
    \A w \in C38_Words :
        /\ C38_Rejected(delete_milestone(file, TRUE, <<w>>), {"invalid_number"})
        /\ C38_Rejected(edit_milestone(file, TRUE, <<w, "description", X>>),
                        {"invalid_milestone_number"})
        /\ C38_Rejected(edit_milestone(file, TRUE, <<w, "date", D2>>),
                        {"invalid_milestone_number"})
        /\ \A u \in Users :
              /\ C38_Rejected(complete_goal(file, u, <<TodayWord, w>>, TodayStr, Timestamp),
                              {"invalid_number"})
              /\ C38_Rejected(complete_goal(file, u, <<D2, w>>, TodayStr, Timestamp),
                              {"invalid_number"})
              /\ C38_Rejected(edit_target(file, u, <<w, Y>>, TodayStr), {"invalid_number"})
              /\ C38_Rejected(delete_target(file, u, <<w>>, TodayStr), {"invalid_number"})
\* /delete_milestone has been turned away for its number on a ledger of
\* several milestones
C38_Witness ==
    /\ reply = "invalid_number"
    /\ Len(Milestones) >= 2
====
